---- MODULE Spec2Model ----
(***************************************************************************)
(* A model of the heading-inference engine of the PDF outline extractor    *)
(* (challenge1a/src/outline_extractor.py): the fragment normalizer, the    *)
(* heading candidate clusterer, the outline builder and extract_outline;   *)
(* of the language classifiers, of the relevance scorer                    *)
(* (challenge1b/src/persona_extractor.py) and of the command-line          *)
(* processors (parser.py).                                                 *)
(*                                                                         *)
(* Texts are sequences of one-character strings.  Font sizes and           *)
(* positions are integers (points).                                        *)
(***************************************************************************)
EXTENDS Integers, Sequences, FiniteSets, TLC

VARIABLES
    pc,                 \* position of the call under study
    doc,                \* the document handed to extract_outline
    doc_open,           \* number of document handles opened and not closed
    title,              \* local of extract_outline
    text_blocks,        \* list of text blocks (fragments)
    language,           \* language tag
    labels,             \* cluster label of each text block (KMeans.fit_predict)
    heading_candidates, \* list of heading candidates
    outline,            \* list of outline entries
    result,             \* value returned by extract_outline
    scaler,             \* self.scaler: the statistics of its last fit
    kmeans_fits,        \* the graph of KMeans(random_state=..).fit_predict so far
    rng_state,          \* state of the process-wide random generator
    first_run,          \* candidates returned by the first of two runs
    text,               \* a raw heading text
    cleaned,            \* its cleaned form
    recleaned,          \* the cleaned form, cleaned again
    outline_y,          \* for each outline entry, the y of its source candidate
    candidates_given,   \* the candidate list as handed to _build_outline
    detector_calls,     \* number of calls of the general detector, detect()
    detected,           \* what the last call of detect() answered
    text_data,          \* list of passages (text, full_context) of a document
    prediction,         \* what the pre-fit classifier predicts for each passage
    task_scores,        \* the scores _score_section_for_tasks gave each passage
    task_sections,      \* value returned by _extract_task_sections
    sections_given,     \* the section list as handed to _deduplicate_sections
    pdf_files,          \* the files of a batch, in processing order
    results,            \* the results of batch_process or of the command
    outputs,            \* the output files on disk: path to content
    args,               \* the parsed command line
    exit_code,          \* the exit code of main
    fragment,           \* the arguments of classify_heading_level
    heading_level       \* the value classify_heading_level returned

vars == <<pc, doc, doc_open, title, text_blocks, language, labels,
          heading_candidates, outline, result, scaler, kmeans_fits,
          rng_state, first_run, text, cleaned, recleaned, outline_y,
          candidates_given, detector_calls, detected, text_data, prediction,
          task_scores, task_sections, sections_given, pdf_files, results,
          outputs, args, exit_code, fragment,
          heading_level>>

-----------------------------------------------------------------------------
(* Characters and the string methods the code uses.                        *)

Lowers == <<"a","b","c","d","e","f","g","h","i","j","k","l","m",
            "n","o","p","q","r","s","t","u","v","w","x","y","z">>

Uppers == <<"A","B","C","D","E","F","G","H","I","J","K","L","M",
            "N","O","P","Q","R","S","T","U","V","W","X","Y","Z">>

Digits == {"0","1","2","3","4","5","6","7","8","9"}

Whitespace == {" ", "\t", "\n"}

Range(s) == {s[i] : i \in DOMAIN s}

LowerLetters == Range(Lowers)

UpperLetters == Range(Uppers)

ToLower == [c \in UpperLetters |-> Lowers[CHOOSE i \in DOMAIN Uppers : Uppers[i] = c]]

ToUpper == [c \in LowerLetters |-> Uppers[CHOOSE i \in DOMAIN Lowers : Lowers[i] = c]]

IsLowerChar(c) == c \in LowerLetters

IsUpperChar(c) == c \in UpperLetters

\* str.lower() and str.upper() on one character
LowerChar(c) == IF IsUpperChar(c) THEN ToLower[c] ELSE c

UpperChar(c) == IF IsLowerChar(c) THEN ToUpper[c] ELSE c

Lower(s) == [i \in DOMAIN s |-> LowerChar(s[i])]

\* str.isupper(): at least one cased character and no lower-case one
IsUpper(s) ==
    /\ \E i \in DOMAIN s : IsUpperChar(s[i])
    /\ \A i \in DOMAIN s : ~IsLowerChar(s[i])

\* str.count(c)
Count(s, c) == Cardinality({i \in DOMAIN s : s[i] = c})

\* the longest prefix / suffix of s made of characters of cls
PrefixLen(s, cls) ==
    IF \A i \in DOMAIN s : s[i] \in cls THEN Len(s)
    ELSE (CHOOSE i \in DOMAIN s : s[i] \notin cls /\ \A j \in 1..(i-1) : s[j] \in cls) - 1

SuffixLen(s, cls) ==
    IF \A i \in DOMAIN s : s[i] \in cls THEN Len(s)
    ELSE Len(s) - (CHOOSE i \in DOMAIN s :
                      s[i] \notin cls /\ \A j \in (i+1)..Len(s) : s[j] \in cls)

\* re.sub(r'^[cls]+', '', s)
DropPrefix(s, cls) == SubSeq(s, PrefixLen(s, cls) + 1, Len(s))

\* re.sub(r'[cls]+$', '', s)
DropSuffix(s, cls) == SubSeq(s, 1, Len(s) - SuffixLen(s, cls))

\* str.strip()
Strip(s) == DropSuffix(DropPrefix(s, Whitespace), Whitespace)

\* re.sub(r'\s+', ' ', s): every maximal run of whitespace becomes one space
RECURSIVE CollapseWhitespace(_)
CollapseWhitespace(s) ==
    IF s = <<>> THEN <<>>
    ELSE IF s[1] \in Whitespace
         THEN <<" ">> \o CollapseWhitespace(DropPrefix(s, Whitespace))
         ELSE <<s[1]>> \o CollapseWhitespace(Tail(s))

LeadingNoise == Digits \cup {".", "-"} \cup Whitespace

TrailingNoise == {".", "-"} \cup Whitespace

\* the first character upper-cased when it is lower-case
Capitalize(s) ==
    IF s # <<>> /\ IsLowerChar(s[1]) THEN <<UpperChar(s[1])>> \o Tail(s) ELSE s

\* a pattern without its '+': one leading character removed at most
StripOneLeading(s) ==
    Strip(IF s # <<>> /\ s[1] \in LeadingNoise THEN Tail(s) ELSE s)

StripLeadingNumbering(s) == Strip(DropPrefix(s, LeadingNoise))

StripTrailingPunctuation(s) == Strip(DropSuffix(s, TrailingNoise))

\* the text of a candidate before the length test of _build_outline
Normalized(s) ==
    StripTrailingPunctuation(StripLeadingNumbering(CollapseWhitespace(Strip(s))))

MinCleanLen == 3

Dropped == <<"<dropped>">>

\* the cleaning step of _build_outline: the cleaned text, or Dropped when the
\* candidate is skipped
CleanText(s) ==
    LET t == Normalized(s)
    IN  IF Len(t) < MinCleanLen THEN Dropped ELSE Capitalize(t)

-----------------------------------------------------------------------------
(* difflib.SequenceMatcher(None, a, b).ratio() for texts shorter than 200  *)
(* characters (no junk, no popular elements).  Ranges are lo..hi,          *)
(* inclusive.                                                              *)

RECURSIVE MatchLen(_, _, _, _, _, _)
MatchLen(a, b, i, j, ahi, bhi) ==
    IF i <= ahi /\ j <= bhi /\ a[i] = b[j]
    THEN 1 + MatchLen(a, b, i + 1, j + 1, ahi, bhi)
    ELSE 0

Max(S) == CHOOSE x \in S : \A y \in S : y <= x

Min(S) == CHOOSE x \in S : \A y \in S : x <= y

\* the longest block starting at a[i]: <<i, j, k>> with the least j of the longest
LongestAt(a, b, i, ahi, blo, bhi) ==
    LET k == Max({MatchLen(a, b, i, j, ahi, bhi) : j \in blo..bhi})
    IN  <<i, Min({j \in blo..bhi : MatchLen(a, b, i, j, ahi, bhi) = k}), k>>

\* find_longest_match: <<i, j, k>>, the longest block a[i..i+k-1] = b[j..j+k-1]
\* inside the ranges; of the longest, the one starting earliest in a, and of
\* those the one starting earliest in b; k = 0 when nothing matches
FindLongestMatch(a, b, alo, ahi, blo, bhi) ==
    LET rows == {LongestAt(a, b, i, ahi, blo, bhi) : i \in alo..ahi}
        k == Max({r[3] : r \in rows})
    IN  IF k = 0 THEN <<alo, blo, 0>>
        ELSE CHOOSE r \in rows :
                r[3] = k /\ \A q \in rows : q[3] = k => r[1] <= q[1]

\* the total size of get_matching_blocks
RECURSIVE Matches(_, _, _, _, _, _)
Matches(a, b, alo, ahi, blo, bhi) ==
    IF alo > ahi \/ blo > bhi THEN 0
    ELSE LET m == FindLongestMatch(a, b, alo, ahi, blo, bhi)
         IN  IF m[3] = 0 THEN 0
             ELSE m[3] + Matches(a, b, alo, m[1] - 1, blo, m[2] - 1)
                       + Matches(a, b, m[1] + m[3], ahi, m[2] + m[3], bhi)

\* ratio() = 2 * matches / (len(a) + len(b)), and 1.0 for two empty texts;
\* RatioExceeds(a, b, num, den) is ratio(a, b) > num / den
RatioExceeds(a, b, num, den) ==
    IF Len(a) + Len(b) = 0 THEN den > num
    ELSE 2 * Matches(a, b, 1, Len(a), 1, Len(b)) * den > num * (Len(a) + Len(b))

SimilarityNum == 85

SimilarityDen == 100

\* line 368-369: similarity > 0.85, the new key first
IsSimilar(text_key, seen_text) ==
    RatioExceeds(text_key, seen_text, SimilarityNum, SimilarityDen)

-----------------------------------------------------------------------------
(* _build_outline                                                          *)

\* the sort key (x['page'], x['y']) of line 332, compared as tuples
KeyBefore(c, d) == c.page < d.page \/ (c.page = d.page /\ c.y < d.y)

\* c put after every element whose key is not greater than its own
InsertByKey(sorted, c) ==
    LET n == Cardinality({i \in DOMAIN sorted : ~KeyBefore(c, sorted[i])})
    IN  SubSeq(sorted, 1, n) \o <<c>> \o SubSeq(sorted, n + 1, Len(sorted))

\* a sort on the page alone
RECURSIVE SortByPage(_)
SortByPage(cands) ==
    IF cands = <<>> THEN <<>>
    ELSE LET rest == SortByPage(SubSeq(cands, 1, Len(cands) - 1))
             c == cands[Len(cands)]
             n == Cardinality({i \in DOMAIN rest : rest[i].page <= c.page})
         IN  SubSeq(rest, 1, n) \o <<c>> \o SubSeq(rest, n + 1, Len(rest))

\* list.sort(key=...): stable, ascending
RECURSIVE SortCandidates(_)
SortCandidates(cands) ==
    IF cands = <<>> THEN <<>>
    ELSE InsertByKey(SortCandidates(SubSeq(cands, 1, Len(cands) - 1)),
                     cands[Len(cands)])

\* lines 335-356: the cleaned items of the sorted candidates, each with the y
\* of its candidate (the y is not part of the item the code builds)
RECURSIVE CleanedItems(_)
CleanedItems(sorted) ==
    IF sorted = <<>> THEN <<>>
    ELSE LET c == sorted[1]
             t == CleanText(c.text)
         IN  IF t = Dropped THEN CleanedItems(Tail(sorted))
             ELSE <<[item |-> [level |-> c.level, text |-> t, page |-> c.page],
                     y |-> c.y]>> \o CleanedItems(Tail(sorted))

\* a key that keeps the letter case
TextKeyCased(t) == Strip(t)

\* item['text'].lower().strip()
TextKey(t) == Strip(Lower(t))

\* a loop that never records the keys it has kept
RECURSIVE DeduplicateForgetful(_, _)
DeduplicateForgetful(items, seen_texts) ==
    IF items = <<>> THEN <<>>
    ELSE LET text_key == TextKey(items[1].item.text)
             is_similar == \E seen_text \in seen_texts : IsSimilar(text_key, seen_text)
         IN  IF is_similar THEN DeduplicateForgetful(Tail(items), seen_texts)
             ELSE <<items[1]>> \o DeduplicateForgetful(Tail(items), seen_texts)

\* lines 358-377: an item is kept unless its key is similar to a kept key
RECURSIVE Deduplicate(_, _)
Deduplicate(items, seen_texts) ==
    IF items = <<>> THEN <<>>
    ELSE LET text_key == TextKey(items[1].item.text)
             is_similar == \E seen_text \in seen_texts : IsSimilar(text_key, seen_text)
         IN  IF is_similar THEN Deduplicate(Tail(items), seen_texts)
             ELSE <<items[1]>> \o Deduplicate(Tail(items), seen_texts \cup {text_key})

\* _build_outline with the y of every entry's candidate
BuildOutlineTraced(cands) ==
    IF cands = <<>> THEN <<>>
    ELSE Deduplicate(CleanedItems(SortCandidates(cands)), {})

BuildOutline(cands) ==
    LET t == BuildOutlineTraced(cands) IN [i \in DOMAIN t |-> t[i].item]

BuildOutlineYs(cands) ==
    LET t == BuildOutlineTraced(cands) IN [i \in DOMAIN t |-> t[i].y]

-----------------------------------------------------------------------------
(* Variable groups and the values of the variables a specification does    *)
(* not use.                                                                *)

NoValue == "none"

extractVars == <<doc, doc_open, title, language, result>>

clusterVars == <<text_blocks, labels, scaler, kmeans_fits, rng_state, first_run>>

outlineVars == <<heading_candidates, outline, outline_y, candidates_given>>

cleanVars == <<text, cleaned, recleaned>>

ExtractIdle ==
    /\ doc = NoValue /\ doc_open = 0 /\ title = NoValue
    /\ language = NoValue /\ result = NoValue

ClusterIdle ==
    /\ text_blocks = <<>> /\ labels = <<>> /\ scaler = NoValue
    /\ kmeans_fits = {} /\ rng_state = 0 /\ first_run = NoValue

OutlineIdle ==
    /\ heading_candidates = <<>> /\ outline = <<>> /\ outline_y = <<>>
    /\ candidates_given = <<>>

CleanIdle == text = <<>> /\ cleaned = <<>> /\ recleaned = <<>>

languageVars == <<detector_calls, detected>>

scoreVars ==
    <<text_data, prediction, task_scores, task_sections, sections_given>>

batchVars == <<pdf_files, results, outputs>>

mainVars == <<args, exit_code>>

lexicalVars == <<fragment, heading_level>>

restVars == <<languageVars, scoreVars, batchVars, mainVars, lexicalVars>>

LanguageIdle == detector_calls = 0 /\ detected = NoValue

ScoreIdle ==
    /\ text_data = <<>> /\ prediction = <<>> /\ task_scores = <<>>
    /\ task_sections = <<>> /\ sections_given = <<>>

BatchIdle == pdf_files = <<>> /\ results = NoValue /\ outputs = <<>>

MainIdle == args = NoValue /\ exit_code = NoValue

LexicalIdle == fragment = NoValue /\ heading_level = NoValue

RestIdle == LanguageIdle /\ ScoreIdle /\ BatchIdle /\ MainIdle /\ LexicalIdle

-----------------------------------------------------------------------------
(* The cleaning step applied to a text and to its own result.              *)

MaxTextLen == 5

CleanAlphabet == {" ", "1", ".", "-", "a", "B"}

RawTexts == UNION {[1..n -> CleanAlphabet] : n \in 0..MaxTextLen}

InitClean ==
    /\ pc = "clean"
    /\ text \in RawTexts
    /\ cleaned = <<>> /\ recleaned = <<>>
    /\ ExtractIdle /\ ClusterIdle /\ OutlineIdle /\ RestIdle

\* lines 337-348 on the text of one candidate
CleanOnce ==
    /\ pc = "clean"
    /\ cleaned' = CleanText(text)
    /\ pc' = "cleaned"
    /\ UNCHANGED <<text, recleaned, extractVars, clusterVars, outlineVars, restVars>>

\* the same lines on the text of a kept entry
CleanAgain ==
    /\ pc = "cleaned"
    /\ cleaned # Dropped
    /\ recleaned' = CleanText(cleaned)
    /\ pc' = "recleaned"
    /\ UNCHANGED <<text, cleaned, extractVars, clusterVars, outlineVars, restVars>>

NextClean == CleanOnce \/ CleanAgain

SpecClean == InitClean /\ [][NextClean]_vars

-----------------------------------------------------------------------------
(* _build_outline on a list of heading candidates given in any order.      *)

MaxCandidates == 2

Introduction == <<"I","n","t","r","o","d","u","c","t","i","o","n">>

IntroductionCaps == <<"I","N","T","R","O","D","U","C","T","I","O","N"," ">>

IntroductionUpper == <<"I","N","T","R","O","D","U","C","T","I","O","N">>

CandidateTexts ==
    { Introduction, IntroductionCaps,
      <<"a","b","a","b","a","a","b","a">>,
      <<"1","."," ","a","a","b","a","a","a",".">>,
      <<"1",".","2">> }

CandidatePool ==
    {c \in [text : CandidateTexts, page : {1, 2}, y : {50, 150}, level : {"H1", "H2"}] :
        c.page = 1 \/ c.y = 50}

InitOutline ==
    /\ pc = "build"
    /\ heading_candidates \in UNION {[1..n -> CandidatePool] : n \in 0..MaxCandidates}
    /\ candidates_given = heading_candidates
    /\ outline = <<>> /\ outline_y = <<>>
    /\ ExtractIdle /\ ClusterIdle /\ CleanIdle /\ RestIdle

\* _build_outline(heading_candidates): the list is sorted in place
BuildOutlineCall ==
    /\ pc = "build"
    /\ LET traced == BuildOutlineTraced(heading_candidates)
       IN  /\ outline' = [i \in DOMAIN traced |-> traced[i].item]
           /\ outline_y' = [i \in DOMAIN traced |-> traced[i].y]
    /\ heading_candidates' = SortCandidates(heading_candidates)
    /\ pc' = "built"
    /\ UNCHANGED <<candidates_given, extractVars, clusterVars, cleanVars, restVars>>

NextOutline == BuildOutlineCall

SpecOutline == InitOutline /\ [][NextOutline]_vars

-----------------------------------------------------------------------------
(* Claims about the outline builder and its cleaning step.                 *)

C6_NoTwoSimilarEntries ==
    pc = "built" =>
        \A i, j \in DOMAIN outline :
            i # j => ~RatioExceeds(Lower(outline[i].text), Lower(outline[j].text),
                                   SimilarityNum, SimilarityDen)

\* C6, amended: no entry has a lower-cased text whose ratio against the
\* lower-cased text of an earlier entry, taken with the later text as the first
\* argument, exceeds 0.85.
C6_NoEntrySimilarToEarlier ==
    pc = "built" =>
        \A i, j \in DOMAIN outline :
            i < j => ~RatioExceeds(Strip(Lower(outline[j].text)),
                                   Strip(Lower(outline[i].text)),
                                   SimilarityNum, SimilarityDen)

\* two candidates with different cleaned texts, of which one was removed
C6_Witness ==
    /\ pc = "built"
    /\ Len(candidates_given) = 2
    /\ CleanText(candidates_given[1].text) # Dropped
    /\ CleanText(candidates_given[2].text) # Dropped
    /\ CleanText(candidates_given[1].text) # CleanText(candidates_given[2].text)
    /\ candidates_given[1].page # candidates_given[2].page
    /\ candidates_given[1].level # candidates_given[2].level
    /\ Len(outline) = 1

\* Scenario B: two H1 candidates on page 1, 'Introduction' and 'INTRODUCTION '
ScenarioB ==
    /\ Len(candidates_given) = 2
    /\ {candidates_given[1].text, candidates_given[2].text}
          = {Introduction, IntroductionCaps}
    /\ \A i \in 1..2 : candidates_given[i].page = 1 /\ candidates_given[i].level = "H1"

\* C7, the claim as stated: in either vertical order the one entry emitted has
\* the text 'Introduction'.
C7_ScenarioBAnyOrder ==
    (pc = "built" /\ ScenarioB) =>
        Len(outline) = 1 /\ outline[1].text = Introduction

\* C7, amended: exactly one entry is emitted, an H1 on page 1, and its text is
\* the cleaned text of the candidate that is first by y (first in the list when
\* the y are equal): 'Introduction' when that candidate is 'Introduction',
\* 'INTRODUCTION' when it is 'INTRODUCTION '.
C7_ScenarioBFirstKept ==
    (pc = "built" /\ ScenarioB) =>
        /\ Len(outline) = 1
        /\ outline[1].level = "H1" /\ outline[1].page = 1
        /\ outline[1].text =
              IF candidates_given[2].y < candidates_given[1].y
              THEN (IF candidates_given[2].text = Introduction
                    THEN Introduction ELSE IntroductionUpper)
              ELSE (IF candidates_given[1].text = Introduction
                    THEN Introduction ELSE IntroductionUpper)

\* Scenario B with 'INTRODUCTION ' above 'Introduction'
C7_Witness ==
    /\ pc = "built" /\ ScenarioB
    /\ candidates_given[1].text = Introduction
    /\ candidates_given[2].y < candidates_given[1].y
    /\ outline = <<[level |-> "H1", text |-> IntroductionUpper, page |-> 1]>>

\* C8: cleaning a text that the builder kept returns that text again.
C8_IdempotentCleaning ==
    pc = "recleaned" => recleaned = cleaned

\* a text that lost its numbering and trailing dot and gained a capital
C8_Witness ==
    /\ pc = "recleaned"
    /\ text[1] \in Digits
    /\ text[Len(text)] \in TrailingNoise
    /\ IsLowerChar(Normalized(text)[1])
    /\ cleaned # text
    /\ recleaned = cleaned

-----------------------------------------------------------------------------
(* _identify_heading_candidates                                            *)

HEADING_LEVELS == <<"H1", "H2", "H3">>

MinBlocks == 10

MaxClusters == 8

MinClusters == 3

BoldFlag == 16

MaxHeadingLen == 150

MaxHeadingSpaces == 20

MinHeadingLen == 4

AllCapsMinLen == 5

KMeansSeed == 42

\* a guard that lets a list of MinBlocks - 1 blocks through
TooFewBlocksOffByOne(blocks) == Len(blocks) < MinBlocks - 1

\* line 267: too few blocks to cluster
TooFewBlocks(blocks) == Len(blocks) < MinBlocks

\* lines 271-275: [font_size, is_bold, x, is_all_caps] per block
Features(blocks) ==
    [i \in DOMAIN blocks |->
        << blocks[i].font_size,
           IF (blocks[i].font_flags \div BoldFlag) % 2 = 1 THEN 1 ELSE 0,
           blocks[i].x,
           IF IsUpper(blocks[i].text) /\ Len(blocks[i].text) > AllCapsMinLen
           THEN 1 ELSE 0 >>]

RECURSIVE SumOver(_, _, _)
SumOver(features, d, i) ==
    IF i = 0 THEN 0 ELSE features[i][d] + SumOver(features, d, i - 1)

RECURSIVE SumSquares(_, _, _)
SumSquares(features, d, i) ==
    IF i = 0 THEN 0 ELSE features[i][d] * features[i][d] + SumSquares(features, d, i - 1)

\* StandardScaler.fit: what mean_ and var_ are computed from, per feature
FitStats(features) ==
    [n |-> Len(features),
     sum |-> [d \in 1..4 |-> SumOver(features, d, Len(features))],
     sumsq |-> [d \in 1..4 |-> SumSquares(features, d, Len(features))]]

\* StandardScaler.transform: (x - mean) / sqrt(var), kept exact as the pair
\* <<n * x - sum, n * sumsq - sum * sum>> = <<n * (x - mean), n * n * var>>
Transform(stats, features) ==
    [i \in DOMAIN features |->
        [d \in 1..4 |->
            << stats.n * features[i][d] - stats.sum[d],
               stats.n * stats.sumsq[d] - stats.sum[d] * stats.sum[d] >>]]

\* lines 283-285: k from the number of distinct font sizes
ClusterCount(features) ==
    LET unique_font_sizes == {features[i][1] : i \in DOMAIN features}
        k == IF Cardinality(unique_font_sizes) < MaxClusters
             THEN Cardinality(unique_font_sizes) ELSE MaxClusters
    IN  IF k > MinClusters THEN k ELSE MinClusters

\* the label lists KMeans may return for the samples X[1..n] and k clusters.
\* A label is the index of the nearest centre, so equal samples get equal
\* labels; and one list is kept per partition, its labels numbered in the order
\* of their first sample, since the code reads a label only to compare it with
\* another and to order clusters by their first sample
RECURSIVE Labelings(_, _, _)
Labelings(X, k, n) ==
    IF n = 0 THEN {<<>>}
    ELSE UNION {
            IF \E j \in 1..(n - 1) : X[j] = X[n]
            THEN {Append(l, l[CHOOSE j \in 1..(n - 1) : X[j] = X[n]])}
            ELSE {Append(l, c) : c \in 0..(IF Cardinality(Range(l)) < k - 1
                                           THEN Cardinality(Range(l)) ELSE k - 1)}
            : l \in Labelings(X, k, n - 1) }

\* KMeans(n_clusters=k, ...) rejects fewer samples than clusters
KMeansRejects(n, k) == n < k

\* a generator seeded by the process-wide one (random_state=None)
KMeansRandomGlobal(rng) == [seed |-> rng, rng |-> rng + 1]

\* random_state=42: the seed of the generator KMeans draws from, and the
\* process-wide generator, which it leaves alone
KMeansRandom(rng) == [seed |-> KMeansSeed, rng |-> rng]

\* the label lists fit_predict may return on X with k clusters and the seed,
\* given the fits made so far: the same arguments give the same labels
FitPredict(fits, X, k, seed) ==
    IF \E f \in fits : f.X = X /\ f.k = k /\ f.seed = seed
    THEN {f.labels : f \in {g \in fits : g.X = X /\ g.k = k /\ g.seed = seed}}
    ELSE Labelings(X, k, Len(X))

\* lines 291-294: the labels in use, and per cluster the sum of its font
\* sizes, its count and its first block
ClusterLabels(lbls) == Range(lbls)

FirstIndex(lbls, c) == Min({i \in DOMAIN lbls : lbls[i] = c})

RECURSIVE SizeSum(_, _, _, _)
SizeSum(blocks, lbls, c, i) ==
    IF i = 0 THEN 0
    ELSE (IF lbls[i] = c THEN blocks[i].font_size ELSE 0) + SizeSum(blocks, lbls, c, i - 1)

ClusterSum(blocks, lbls, c) == SizeSum(blocks, lbls, c, Len(blocks))

ClusterSize(lbls, c) == Cardinality({i \in DOMAIN lbls : lbls[i] = c})

\* lines 297-299: cluster c as <<sum, count, first>>; its mean is sum / count
ClusterInfo(blocks, lbls, c) ==
    <<ClusterSum(blocks, lbls, c), ClusterSize(lbls, c), FirstIndex(lbls, c)>>

\* np.mean of cluster p is greater than / equal to np.mean of cluster q
MeanGreater(p, q) == p[1] * q[2] > q[1] * p[2]

MeanEqual(p, q) == p[1] * q[2] = q[1] * p[2]

\* clusters ranked by ascending mean font size
RankAscending(infos, p) ==
    1 + Cardinality({q \in infos :
            MeanGreater(p, q) \/ (MeanEqual(p, q) /\ q[3] < p[3])})

\* line 302: the 1-based position of cluster p in sorted_clusters: descending
\* mean font size, clusters of equal mean in the order their labels appear
Rank(infos, p) ==
    1 + Cardinality({q \in infos :
            MeanGreater(q, p) \/ (MeanEqual(q, p) /\ q[3] < p[3])})

\* a filter on the length alone
FilteredOutByLength(t) == Len(t) > MaxHeadingLen \/ Len(t) < MinHeadingLen

\* line 317: paragraph-like or too short text
FilteredOut(t) ==
    Len(t) > MaxHeadingLen \/ Count(t, " ") > MaxHeadingSpaces \/ Len(t) < MinHeadingLen

\* lines 320-321: candidate = block.copy(); candidate['level'] = level
WithLevel(block, level) ==
    [f \in DOMAIN block \cup {"level"} |-> IF f = "level" THEN level ELSE block[f]]

\* every cluster a heading cluster, those after the third at the last level
RECURSIVE CandidatesFromAllClusters(_, _, _)
CandidatesFromAllClusters(blocks, ranks, i) ==
    IF i > Len(blocks) THEN <<>>
    ELSE IF ~FilteredOut(blocks[i].text)
         THEN <<WithLevel(blocks[i],
                    HEADING_LEVELS[IF ranks[i] <= Len(HEADING_LEVELS)
                                   THEN ranks[i] ELSE Len(HEADING_LEVELS)])>>
              \o CandidatesFromAllClusters(blocks, ranks, i + 1)
         ELSE CandidatesFromAllClusters(blocks, ranks, i + 1)

\* lines 305-324: the candidates, given the labels; ranks[i] is the rank of
\* the cluster of block i
RECURSIVE CandidatesFrom(_, _, _)
CandidatesFrom(blocks, ranks, i) ==
    IF i > Len(blocks) THEN <<>>
    ELSE IF ranks[i] <= Len(HEADING_LEVELS) /\ ~FilteredOut(blocks[i].text)
         THEN <<WithLevel(blocks[i], HEADING_LEVELS[ranks[i]])>>
              \o CandidatesFrom(blocks, ranks, i + 1)
         ELSE CandidatesFrom(blocks, ranks, i + 1)

\* the rank of the cluster of every block
RECURSIVE BlockRanks(_, _, _, _)
BlockRanks(blocks, lbls, infos, i) ==
    IF i > Len(blocks) THEN <<>>
    ELSE <<Rank(infos, ClusterInfo(blocks, lbls, lbls[i]))>>
         \o BlockRanks(blocks, lbls, infos, i + 1)

HeadingCandidates(blocks, lbls) ==
    CandidatesFrom(blocks,
        BlockRanks(blocks, lbls,
                   {ClusterInfo(blocks, lbls, c) : c \in ClusterLabels(lbls)}, 1),
        1)

\* a scaler that adds the new samples to the statistics of its earlier fits,
\* as partial_fit does
ScalerPartialFit(fitted, features) ==
    LET new == FitStats(features)
    IN  [n |-> fitted.n + new.n,
         sum |-> [d \in 1..4 |-> fitted.sum[d] + new.sum[d]],
         sumsq |-> [d \in 1..4 |-> fitted.sumsq[d] + new.sumsq[d]]]

\* self.scaler.fit_transform: the statistics of an earlier fit are discarded
ScalerFit(fitted, features) == FitStats(features)

\* _identify_heading_candidates(text_blocks, language) on an extractor whose
\* scaler holds the statistics fitted, ending at position done
Identify(fitted, done, raised) ==
    IF TooFewBlocks(text_blocks) \/ Features(text_blocks) = <<>>
    THEN /\ heading_candidates' = <<>>
         /\ pc' = done
         /\ UNCHANGED <<labels, scaler, kmeans_fits, rng_state>>
    ELSE LET features == Features(text_blocks)
             stats == ScalerFit(fitted, features)
             X == Transform(stats, features)
             k == ClusterCount(features)
             random == KMeansRandom(rng_state)
         IN  /\ scaler' = stats
             /\ rng_state' = random.rng
             /\ IF KMeansRejects(Len(X), k)
                THEN /\ pc' = raised
                     /\ UNCHANGED <<labels, kmeans_fits, heading_candidates>>
                ELSE \E l \in FitPredict(kmeans_fits, X, k, random.seed) :
                        /\ labels' = l
                        /\ kmeans_fits' = kmeans_fits \cup
                              {[X |-> X, k |-> k, seed |-> random.seed, labels |-> l]}
                        /\ heading_candidates' = HeadingCandidates(text_blocks, l)
                        /\ pc' = done

-----------------------------------------------------------------------------
(* The clusterer on lists of text blocks.                                  *)

ExtraBlocks == 0

ChapterText == <<"C","h","a","p","t","e","r"," ","1"," ","O","v","e","r","v","i","e","w">>

BackgroundText == <<"1",".","1"," ","B","a","c","k","g","r","o","u","n","d">>

BodyText == <<"T","h","i","s"," ","i","s"," ","b","o","d","y"," ","t","e","x","t"," ","a","b","o","u","t"," ","v","a","r","i","o","u","s"," ","t","o","p","i","c","s"," ","t","h","a","t"," ","i","s"," ","a","d","m","i","t","t","e","d","l","y"," ","r","a","t","h","e","r"," ","l","o","n","g",".">>

SummaryText == <<"S","U","M","M","A","R","Y">>

MethodsText == <<"2"," ","M","e","t","h","o","d","s">>

AppendixText == <<"A","p","p","e","n","d","i","x">>

ShortBodyText == <<"B","o","d","y"," ","t","e","x","t",".">>

Block(t, size, flags, x, i) ==
    [text |-> t, page |-> 1, font_size |-> size, font_flags |-> flags,
     x |-> x, y |-> 50 * i]

\* Scenario A: 'Chapter 1 Overview' at 24, '1.1 Background' at 18, body text
\* at 11, two of the body lines indented
ScenarioADoc ==
    [i \in 1..(MinBlocks + ExtraBlocks) |->
        IF i = 1 THEN Block(ChapterText, 24, 0, 72, i)
        ELSE IF i = 3 THEN Block(BackgroundText, 18, 0, 72, i)
        ELSE IF i \in {5, 8} THEN Block(BodyText, 11, 0, 90, i)
        ELSE Block(BodyText, 11, 0, 72, i)]

\* four font sizes: a bold all-caps title, two sub-headings, body text at three
\* indentations
FourSizesDoc ==
    [i \in 1..(MinBlocks + ExtraBlocks) |->
        IF i = 1 THEN Block(SummaryText, 24, BoldFlag, 72, i)
        ELSE IF i = 2 THEN Block(MethodsText, 18, BoldFlag, 72, i)
        ELSE IF i = 5 THEN Block(AppendixText, 14, 0, 72, i)
        ELSE IF i \in {4, 7} THEN Block(ShortBodyText, 11, 0, 90, i)
        ELSE IF i = 9 THEN Block(ShortBodyText, 11, 0, 108, i)
        ELSE Block(ShortBodyText, 11, 0, 72, i)]

\* one font size, every block at its own indentation: ten different samples
OneSizeDoc ==
    [i \in 1..MinBlocks |-> Block(ShortBodyText, 11, 0, 72 + i, i)]

\* n words of two letters, a space between each two
WordsText(n) == [i \in 1..(3 * n - 1) |-> IF i % 3 = 0 THEN " " ELSE "a"]

\* one word of n letters
LettersText(n) == [i \in 1..n |-> "a"]

\* six blocks at 24 whose texts are at the limits of the filter of line 317
\* (21 and 22 words, 3, 4, 150 and 151 characters), one at 18, body at 11
FilterDoc ==
    [i \in 1..MinBlocks |->
        IF i = 1 THEN Block(WordsText(MaxHeadingSpaces + 1), 24, 0, 72, i)
        ELSE IF i = 2 THEN Block(WordsText(MaxHeadingSpaces + 2), 24, 0, 72, i)
        ELSE IF i = 3 THEN Block(LettersText(MinHeadingLen - 1), 24, 0, 72, i)
        ELSE IF i = 4 THEN Block(LettersText(MinHeadingLen), 24, 0, 72, i)
        ELSE IF i = 5 THEN Block(LettersText(MaxHeadingLen), 24, 0, 72, i)
        ELSE IF i = 6 THEN Block(LettersText(MaxHeadingLen + 1), 24, 0, 72, i)
        ELSE IF i = 7 THEN Block(MethodsText, 18, 0, 72, i)
        ELSE Block(ShortBodyText, 11, 0, 72, i)]

\* ten lines of body text of one font at one indentation: one sample
UniformDoc ==
    [i \in 1..MinBlocks |-> Block(ShortBodyText, 11, 0, 72, i)]

BlockLists ==
    {SubSeq(d, 1, n) : d \in {ScenarioADoc, FourSizesDoc},
                       n \in 0..(MinBlocks + ExtraBlocks)}
        \cup {OneSizeDoc, FilterDoc, UniformDoc}

Languages == {"english", "japanese"}

InitCluster ==
    /\ pc = "identify"
    /\ text_blocks \in BlockLists
    /\ language \in Languages
    /\ labels = <<>> /\ scaler = NoValue /\ kmeans_fits = {} /\ rng_state = 0
    /\ first_run = NoValue
    /\ heading_candidates = <<>> /\ outline = <<>> /\ outline_y = <<>>
    /\ candidates_given = <<>>
    /\ doc = NoValue /\ doc_open = 0 /\ title = NoValue /\ result = NoValue
    /\ CleanIdle /\ RestIdle

IdentifyCall ==
    /\ pc = "identify"
    /\ Identify(scaler, "returned", "raised")
    /\ UNCHANGED <<text_blocks, language, first_run, outline, outline_y,
                   candidates_given, doc, doc_open, title, result, cleanVars, restVars>>

NextCluster == IdentifyCall

SpecCluster == InitCluster /\ [][NextCluster]_vars

-----------------------------------------------------------------------------
(* Two runs of the clusterer on one list of text blocks.                   *)

InitRuns ==
    /\ pc = "identify"
    /\ text_blocks \in BlockLists \ {OneSizeDoc, FilterDoc, UniformDoc}
    /\ language \in Languages
    /\ labels = <<>> /\ scaler = NoValue /\ kmeans_fits = {} /\ rng_state = 0
    /\ first_run = NoValue
    /\ heading_candidates = <<>> /\ outline = <<>> /\ outline_y = <<>>
    /\ candidates_given = <<>>
    /\ doc = NoValue /\ doc_open = 0 /\ title = NoValue /\ result = NoValue
    /\ CleanIdle /\ RestIdle

\* a second call, on the same extractor or on a new one (a new StandardScaler)
IdentifyAgain ==
    /\ pc = "returned"
    /\ first_run' = [labels |-> labels, candidates |-> heading_candidates]
    /\ \E fresh \in BOOLEAN :
          Identify(IF fresh THEN NoValue ELSE scaler, "returned_again", "raised")
    /\ UNCHANGED <<text_blocks, language, outline, outline_y,
                   candidates_given, doc, doc_open, title, result, cleanVars, restVars>>

NextRuns == IdentifyCall \/ IdentifyAgain

SpecRuns == InitRuns /\ [][NextRuns]_vars

-----------------------------------------------------------------------------
(* The document as the text extractor presents it, _extract_title,         *)
(* _extract_text_blocks and _detect_language.                              *)
(*                                                                         *)
(* A document is [exists, metadata, pages]; a page [readable, blocks]; a   *)
(* block a record that may have "lines"; a line a record that may have     *)
(* "spans"; a span a record that may have text, size, font, flags, bbox.   *)

\* dict.get(key, default)
Get(d, key, default) == IF key \in DOMAIN d THEN d[key] ELSE default

Unknown == <<"U","n","k","n","o","w","n">>

UnknownDocument == <<"U","n","k","n","o","w","n"," ","D","o","c","u","m","e","n","t">>

DefaultFontSize == 12

MinLineLen == 3

MaxLineLen == 300

TitleMinLen == 5

TitleMaxLen == 100

TitleMinSize == 14

Stoplist ==
    { <<"p","a","g","e">>, <<"c","o","n","t","e","n","t","s">>, <<"i","n","d","e","x">>,
      <<"r","e","f","e","r","e","n","c","e","s">>,
      <<"b","i","b","l","i","o","g","r","a","p","h","y">> }

\* re.match(r'^\d+$', t)
AllDigits(t) == t # <<>> /\ \A i \in DOMAIN t : t[i] \in Digits

\* doc.metadata is None
NoMetadata == [none |-> TRUE]

\* the lines of the blocks of a page that have lines, in order
RECURSIVE LinesOf(_)
LinesOf(blocks) ==
    IF blocks = <<>> THEN <<>>
    ELSE (IF "lines" \in DOMAIN blocks[1] THEN blocks[1].lines ELSE <<>>)
         \o LinesOf(Tail(blocks))

\* all spans of a list of lines
RECURSIVE SpansOf(_)
SpansOf(lines) ==
    IF lines = <<>> THEN <<>> ELSE Get(lines[1], "spans", <<>>) \o SpansOf(Tail(lines))

\* lines 147-153: the title candidates <<text, size, y>> of the spans
RECURSIVE TitleCandidates(_)
TitleCandidates(spans) ==
    IF spans = <<>> THEN <<>>
    ELSE LET t == Strip(Get(spans[1], "text", <<>>))
             font_size == Get(spans[1], "size", 0)
         IN  (IF Len(t) > TitleMinLen /\ Len(t) < TitleMaxLen
                 /\ font_size > TitleMinSize /\ ~AllDigits(t)
              THEN << <<t, font_size, Get(spans[1], "bbox", <<0, 0, 0, 0>>)[2]>> >>
              ELSE <<>>)
             \o TitleCandidates(Tail(spans))

\* lines 157-158: the first candidate by (-size, y), candidates of equal key in
\* their order
BestTitle(cands) ==
    LET better(c, d) == c[2] > d[2] \/ (c[2] = d[2] /\ c[3] < d[3])
        i == CHOOSE n \in DOMAIN cands :
                /\ \A m \in DOMAIN cands : ~better(cands[m], cands[n])
                /\ \A m \in 1..(n - 1) : better(cands[n], cands[m])
    IN  cands[i][1]

\* _extract_title raises: no metadata object, or a first page that cannot be read
ExtractTitleRaises(d) ==
    \/ d.metadata = NoMetadata
    \/ /\ Get(d.metadata, "title", <<>>) = <<>>
       /\ Len(d.pages) > 0
       /\ ~d.pages[1].readable

\* a title taken from the metadata as it is
ExtractTitleUnstripped(d) ==
    IF Get(d.metadata, "title", <<>>) # <<>> THEN d.metadata.title
    ELSE IF Len(d.pages) > 0 /\ TitleCandidates(SpansOf(LinesOf(d.pages[1].blocks))) # <<>>
    THEN BestTitle(TitleCandidates(SpansOf(LinesOf(d.pages[1].blocks))))
    ELSE UnknownDocument

\* _extract_title (lines 127-160)
ExtractTitle(d) ==
    IF Get(d.metadata, "title", <<>>) # <<>> THEN Strip(d.metadata.title)
    ELSE IF Len(d.pages) > 0 /\ TitleCandidates(SpansOf(LinesOf(d.pages[1].blocks))) # <<>>
    THEN BestTitle(TitleCandidates(SpansOf(LinesOf(d.pages[1].blocks))))
    ELSE UnknownDocument

\* the last of the spans of the largest size taken as the dominant one
RECURSIVE LineOfLastLargest(_, _)
LineOfLastLargest(spans, acc) ==
    IF spans = <<>> THEN acc
    ELSE LET span == spans[1]
             span_text == Strip(Get(span, "text", <<>>))
             font_size == Get(span, "size", DefaultFontSize)
             b == Get(span, "bbox", <<0, 0, 0, 0>>)
             lo(u, v) == IF u < v THEN u ELSE v
             hi(u, v) == IF u > v THEN u ELSE v
         IN  IF span_text = <<>> THEN LineOfLastLargest(Tail(spans), acc)
             ELSE LineOfLastLargest(Tail(spans),
                    [text |-> acc.text \o span_text \o <<" ">>,
                     span_count |-> acc.span_count + 1,
                     font_size |-> IF font_size >= acc.font_size THEN font_size
                                   ELSE acc.font_size,
                     font_name |-> IF font_size >= acc.font_size
                                   THEN Get(span, "font", <<>>) ELSE acc.font_name,
                     font_flags |-> IF font_size >= acc.font_size
                                    THEN Get(span, "flags", 0) ELSE acc.font_flags,
                     bbox |-> IF acc.bbox = <<>> THEN b
                              ELSE << lo(acc.bbox[1], b[1]), lo(acc.bbox[2], b[2]),
                                      hi(acc.bbox[3], b[3]), hi(acc.bbox[4], b[4]) >>])

\* lines 176-207: the spans of a line folded into its text, dominant font and
\* bounding box; bbox is <<>> while no span has been taken
RECURSIVE LineOf(_, _)
LineOf(spans, acc) ==
    IF spans = <<>> THEN acc
    ELSE LET span == spans[1]
             span_text == Strip(Get(span, "text", <<>>))
             font_size == Get(span, "size", DefaultFontSize)
             b == Get(span, "bbox", <<0, 0, 0, 0>>)
             lo(u, v) == IF u < v THEN u ELSE v
             hi(u, v) == IF u > v THEN u ELSE v
         IN  IF span_text = <<>> THEN LineOf(Tail(spans), acc)
             ELSE LineOf(Tail(spans),
                    [text |-> acc.text \o span_text \o <<" ">>,
                     span_count |-> acc.span_count + 1,
                     font_size |-> IF font_size > acc.font_size THEN font_size
                                   ELSE acc.font_size,
                     font_name |-> IF font_size > acc.font_size
                                   THEN Get(span, "font", <<>>) ELSE acc.font_name,
                     font_flags |-> IF font_size > acc.font_size
                                    THEN Get(span, "flags", 0) ELSE acc.font_flags,
                     bbox |-> IF acc.bbox = <<>> THEN b
                              ELSE << lo(acc.bbox[1], b[1]), lo(acc.bbox[2], b[2]),
                                      hi(acc.bbox[3], b[3]), hi(acc.bbox[4], b[4]) >>])

EmptyLine ==
    [text |-> <<>>, span_count |-> 0, font_size |-> 0, font_name |-> <<>>,
     font_flags |-> 0, bbox |-> <<>>]

\* the test of line 217 left out
KeepsLineOfAnyLength(line_text) == Len(line_text) >= MinLineLen /\ ~AllDigits(line_text) /\ Lower(line_text) \notin Stoplist

\* lines 212-219: the line is kept
KeepsLine(line_text) ==
    /\ Len(line_text) >= MinLineLen
    /\ ~AllDigits(line_text)
    /\ Len(line_text) <= MaxLineLen
    /\ Lower(line_text) \notin Stoplist

\* lines 224-236
TextBlock(l, page_num) ==
    LET line_bbox == IF l.bbox = <<>> THEN <<0, 0, 0, 0>> ELSE l.bbox
    IN  [text |-> Strip(l.text), page |-> page_num,
         font_size |-> l.font_size, font_name |-> l.font_name,
         font_flags |-> l.font_flags, bbox |-> line_bbox,
         x |-> line_bbox[1], y |-> line_bbox[2],
         width |-> line_bbox[3] - line_bbox[1],
         height |-> line_bbox[4] - line_bbox[2],
         span_count |-> l.span_count]

RECURSIVE BlocksOfLines(_, _)
BlocksOfLines(lines, page_num) ==
    IF lines = <<>> THEN <<>>
    ELSE LET l == LineOf(Get(lines[1], "spans", <<>>), EmptyLine)
         IN  (IF KeepsLine(Strip(l.text)) THEN <<TextBlock(l, page_num)>> ELSE <<>>)
             \o BlocksOfLines(Tail(lines), page_num)

RECURSIVE BlocksOfPages(_, _)
BlocksOfPages(pages, page_num) ==
    IF page_num > Len(pages) THEN <<>>
    ELSE BlocksOfLines(LinesOf(pages[page_num].blocks), page_num)
         \o BlocksOfPages(pages, page_num + 1)

\* _extract_text_blocks raises: a page that cannot be read
ExtractTextBlocksRaises(d) == \E p \in DOMAIN d.pages : ~d.pages[p].readable

\* _extract_text_blocks (lines 162-240)
ExtractTextBlocks(d) == BlocksOfPages(d.pages, 1)

Hiragana == {"U+3042", "U+3044"}

Katakana == {"U+30A2", "U+30AB"}

Kanji == {"U+6F22", "U+5B57"}

JapanesePatterns == {Hiragana, Katakana, Kanji}

JapaneseThreshold == 10

SampleBlocks == 100

SampleMinLen == 5

\* " ".join(texts)
RECURSIVE Join(_)
Join(texts) ==
    IF texts = <<>> THEN <<>>
    ELSE IF Len(texts) = 1 THEN texts[1]
    ELSE texts[1] \o <<" ">> \o Join(Tail(texts))

\* lines 245-248
SampleText(blocks) ==
    LET first == SubSeq(blocks, 1, IF Len(blocks) < SampleBlocks THEN Len(blocks)
                                   ELSE SampleBlocks)
    IN  Join(SelectSeq([i \in DOMAIN first |-> first[i].text],
                       LAMBDA t : Len(t) > SampleMinLen))

\* lines 251-252: the number of patterns that match somewhere in the sample
JapaneseChars(sample_text) ==
    Cardinality({p \in JapanesePatterns : \E i \in DOMAIN sample_text : sample_text[i] \in p})

\* what the language detector does on a sample: a language code, a
\* LangDetectError, or another exception
DetectOutcomes == {"en", "ja", "fr", "LangDetectError", "RuntimeError"}

\* lines 254-258: the detector is invoked unless the count exceeds the threshold
InvokesDetector(blocks) == JapaneseChars(SampleText(blocks)) <= JapaneseThreshold

\* _detect_language raises what the detector raises, LangDetectError apart
DetectLanguageRaises(blocks, answer) ==
    /\ InvokesDetector(blocks)
    /\ answer = "RuntimeError"

\* a classifier that hands on whatever the detector answered but 'ja'
DetectLanguageNoDefault(blocks, answer) ==
    IF ~InvokesDetector(blocks) THEN "japanese"
    ELSE IF answer = "ja" THEN "japanese"
    ELSE answer

\* _detect_language (lines 242-262), the detector answering answer
DetectLanguage(blocks, answer) ==
    IF ~InvokesDetector(blocks) THEN "japanese"
    ELSE IF answer = "ja" THEN "japanese"
    ELSE "english"

\* line 259: detected = detect(sample_text), when the call is reached
DetectorCall(invoked, answer) ==
    IF invoked
    THEN detector_calls' = detector_calls + 1 /\ detected' = answer
    ELSE UNCHANGED <<detector_calls, detected>>

-----------------------------------------------------------------------------
(* extract_outline: one call on one document, step by step, with its       *)
(* exception handler.                                                      *)

Helvetica == <<"H","e","l","v","e","t","i","c","a">>

MyDocTitle == <<" ","M","y"," ","D","o","c"," ">>

ContentsText == <<"C","o","n","t","e","n","t","s">>

VersionText == <<"V","e","r","s","i","o","n">>

Span(t, size, x, y) ==
    [text |-> t, size |-> size, font |-> Helvetica, flags |-> 0,
     bbox |-> <<x, y, x + 200, y + size>>]

\* a page whose one text block has a one-span line for each fragment
LinePage(blocks) ==
    [readable |-> TRUE,
     blocks |-> << [type |-> 0,
                    lines |-> [i \in DOMAIN blocks |->
                                 [spans |-> <<Span(blocks[i].text, blocks[i].font_size,
                                                   blocks[i].x, blocks[i].y)>>]]] >>]

\* a page with an image block only
ImagePage == [readable |-> TRUE, blocks |-> << [type |-> 1] >>]

\* a page all of whose lines are filtered out: a stoplist word in large
\* type, a page number, a two-character line, a blank span, a line with no spans
FilteredPage ==
    [readable |-> TRUE,
     blocks |-> << [type |-> 1],
                   [type |-> 0,
                    lines |-> << [spans |-> <<Span(ContentsText, 20, 72, 50)>>],
                                 [spans |-> <<Span(<<"1","2">>, 10, 300, 700)>>],
                                 [spans |-> <<Span(<<"a","b">>, 11, 72, 100),
                                              Span(<<" "," ">>, 11, 90, 100)>>],
                                 [dir |-> <<1, 0>>] >>] >>]

\* a page whose text cannot be read
UnreadablePage == [readable |-> FALSE, blocks |-> <<>>]

\* a page of three lines, the first of two spans of which the second has a
\* text only
ShortPage ==
    [readable |-> TRUE,
     blocks |-> << [type |-> 0,
                    lines |-> << [spans |-> <<Span(VersionText, 16, 72, 40),
                                              [text |-> <<"2">>]>>],
                                 [spans |-> <<Span(BackgroundText, 18, 72, 150)>>],
                                 [spans |-> <<Span(ShortBodyText, 11, 72, 200)>>] >>] >>]

\* the lines of a page with enough fragments to cluster: two headings and short
\* body lines, one of them indented
ReportLines ==
    [i \in 1..(MinBlocks + ExtraBlocks) |->
        IF i = 1 THEN Block(ChapterText, 24, 0, 72, i)
        ELSE IF i = 3 THEN Block(BackgroundText, 18, 0, 72, i)
        ELSE IF i = 5 THEN Block(ShortBodyText, 11, 0, 90, i)
        ELSE Block(ShortBodyText, 11, 0, 72, i)]

PageLists ==
    { <<>>, <<ImagePage>>, <<FilteredPage>>, <<FilteredPage, ImagePage>>,
      <<UnreadablePage>>, <<ShortPage>>, <<LinePage(ReportLines)>>,
      <<LinePage(ReportLines), UnreadablePage>> }

Metadatas ==
    { NoMetadata, [format |-> <<"P","D","F">>], [format |-> <<"P","D","F">>, title |-> <<>>],
      [format |-> <<"P","D","F">>, title |-> MyDocTitle] }

Documents ==
    {[exists |-> TRUE, metadata |-> m, pages |-> p] : m \in Metadatas, p \in PageLists}
    \cup {[exists |-> FALSE, metadata |-> NoMetadata, pages |-> <<>>]}

\* the exceptions the steps raise, all of them subclasses of Exception
Exceptions ==
    {"FileNotFoundError", "AttributeError", "RuntimeError", "MemoryError", "ValueError"}

\* a handler for a missing file only
CaughtFileNotFound(exc) == exc = "FileNotFoundError"

\* line 123: except Exception
Caught(exc) == exc \in Exceptions

\* line 125
DefaultResult == [title |-> Unknown, outline |-> <<>>]

\* lines 123-125: the handler returns the default result; an exception it
\* does not catch leaves the call
Raise(exc) ==
    /\ pc' = IF Caught(exc) THEN "failed" ELSE "crashed"
    /\ result' = IF Caught(exc) THEN DefaultResult ELSE result

Init ==
    /\ pc = "open"
    /\ doc \in Documents
    /\ doc_open = 0 /\ title = NoValue /\ language = NoValue /\ result = NoValue
    /\ ClusterIdle /\ OutlineIdle /\ CleanIdle /\ RestIdle

\* line 96
Open ==
    /\ pc = "open"
    /\ IF doc.exists
       THEN doc_open' = 1 /\ pc' = "title" /\ UNCHANGED result
       ELSE Raise("FileNotFoundError") /\ UNCHANGED doc_open
    /\ UNCHANGED <<doc, title, language, clusterVars, outlineVars, cleanVars, restVars>>

\* line 99
Title ==
    /\ pc = "title"
    /\ IF ExtractTitleRaises(doc)
       THEN /\ Raise(IF doc.metadata = NoMetadata THEN "AttributeError"
                     ELSE "RuntimeError")
            /\ UNCHANGED title
       ELSE title' = ExtractTitle(doc) /\ pc' = "blocks" /\ UNCHANGED result
    /\ UNCHANGED <<doc, doc_open, language, clusterVars, outlineVars, cleanVars, restVars>>

\* line 102
TextBlocks ==
    /\ pc = "blocks"
    /\ IF ExtractTextBlocksRaises(doc)
       THEN Raise("RuntimeError") /\ UNCHANGED text_blocks
       ELSE text_blocks' = ExtractTextBlocks(doc) /\ pc' = "language" /\ UNCHANGED result
    /\ UNCHANGED <<doc, doc_open, title, language, labels, scaler, kmeans_fits,
                   rng_state, first_run, outlineVars, cleanVars, restVars>>

\* line 105
Language ==
    /\ pc = "language"
    /\ \E answer \in DetectOutcomes :
          /\ DetectorCall(InvokesDetector(text_blocks), answer)
          /\ IF DetectLanguageRaises(text_blocks, answer)
             THEN Raise(answer) /\ UNCHANGED language
             ELSE /\ language' = DetectLanguage(text_blocks, answer)
                  /\ pc' = "cluster"
                  /\ UNCHANGED result
    /\ UNCHANGED <<doc, doc_open, title, clusterVars, outlineVars, cleanVars,
                   scoreVars, batchVars, mainVars, lexicalVars>>

\* line 108; the library may run out of memory
Cluster ==
    /\ pc = "cluster"
    /\ \E fault \in BOOLEAN :
          IF fault
          THEN /\ Raise("MemoryError")
               /\ UNCHANGED <<labels, scaler, kmeans_fits, rng_state, heading_candidates>>
          ELSE /\ Identify(scaler, "build", IF Caught("ValueError") THEN "failed"
                                            ELSE "crashed")
               /\ result' = IF pc' = "failed" THEN DefaultResult ELSE result
    /\ UNCHANGED <<doc, doc_open, title, language, text_blocks, first_run,
                   outline, outline_y, candidates_given, cleanVars, restVars>>

\* line 111
Build ==
    /\ pc = "build"
    /\ \E fault \in BOOLEAN :
          IF fault
          THEN Raise("MemoryError") /\ UNCHANGED <<heading_candidates, outline, outline_y>>
          ELSE /\ LET traced == BuildOutlineTraced(heading_candidates)
                  IN  /\ outline' = [i \in DOMAIN traced |-> traced[i].item]
                      /\ outline_y' = [i \in DOMAIN traced |-> traced[i].y]
               /\ heading_candidates' = SortCandidates(heading_candidates)
               /\ pc' = "close"
               /\ UNCHANGED result
    /\ UNCHANGED <<doc, doc_open, title, language, clusterVars, candidates_given,
                   cleanVars, restVars>>

\* lines 113-121
Close ==
    /\ pc = "close"
    /\ doc_open' = 0
    /\ result' = [title |-> title, outline |-> outline]
    /\ pc' = "done"
    /\ UNCHANGED <<doc, title, language, clusterVars, outlineVars, cleanVars, restVars>>

Next == Open \/ Title \/ TextBlocks \/ Language \/ Cluster \/ Build \/ Close

Spec == Init /\ [][Next]_vars

-----------------------------------------------------------------------------
(* Claims about the clusterer.                                             *)

\* C1: for a list of fewer than 10 text blocks, whatever the language tag,
\* _identify_heading_candidates returns the empty list: it does not raise and
\* it clusters nothing.
C1_MinimumFragmentGuard ==
    (pc # "identify" /\ Len(text_blocks) < 10) =>
        /\ pc = "returned"
        /\ heading_candidates = <<>>
        /\ labels = <<>>

\* nine blocks, two of them at heading sizes, tagged japanese
C1_Witness ==
    /\ pc = "returned"
    /\ Len(text_blocks) = 9
    /\ language = "japanese"
    /\ \E i \in DOMAIN text_blocks : text_blocks[i].font_size = 24
    /\ heading_candidates = <<>>

\* the block a candidate was copied from
BlockOf(candidate) ==
    CHOOSE i \in DOMAIN text_blocks :
        /\ text_blocks[i].y = candidate.y
        /\ WithLevel(text_blocks[i], candidate.level) = candidate

\* the mean font size of the cluster of block i is at least that of block j
MeanAtLeast(i, j) ==
    SizeSum(text_blocks, labels, labels[i], Len(labels)) * ClusterSize(labels, labels[j])
        >= SizeSum(text_blocks, labels, labels[j], Len(labels)) * ClusterSize(labels, labels[i])

\* C2: whenever the clusterer returns an H1 candidate and an H2 candidate (or
\* an H2 and an H3), the mean font size of the cluster of the first is at
\* least that of the cluster of the second.
C2_LevelMonotonicity ==
    pc = "returned" =>
        \A a, b \in Range(heading_candidates) :
            (\/ a.level = "H1" /\ b.level = "H2"
             \/ a.level = "H2" /\ b.level = "H3")
                => MeanAtLeast(BlockOf(a), BlockOf(b))

\* candidates at the three levels from clusters of three different means, the
\* cluster of the largest mean not the first to appear
C2_Witness ==
    /\ pc = "returned"
    /\ Len(text_blocks) >= 10
    /\ \E a, b, c \in Range(heading_candidates) :
          /\ a.level = "H1" /\ b.level = "H2" /\ c.level = "H3"
          /\ ~MeanAtLeast(BlockOf(b), BlockOf(a))
          /\ ~MeanAtLeast(BlockOf(c), BlockOf(b))
          /\ labels[BlockOf(a)] # 0

\* C3, Scenario A as stated: one block 'Chapter 1 Overview' at 24, one
\* '1.1 Background' at 18, all others body text at 11: exactly two candidates
\* are returned, H1 and H2, and no block of size 11 is a candidate.
C3_ScenarioA ==
    (pc = "returned" /\ Len(text_blocks) >= 10
        /\ text_blocks = SubSeq(ScenarioADoc, 1, Len(text_blocks))) =>
        /\ heading_candidates =
              << WithLevel(text_blocks[1], "H1"), WithLevel(text_blocks[3], "H2") >>
        /\ \A n \in DOMAIN heading_candidates : heading_candidates[n].font_size # 11

\* C4: a second run on the same list of text blocks, on the same extractor or
\* on a new one, returns the labels and the candidates of the first run.
C4_Determinism ==
    pc = "returned_again" =>
        /\ labels = first_run.labels
        /\ heading_candidates = first_run.candidates

\* two runs that clustered ten blocks or more and returned candidates
C4_Witness ==
    /\ pc = "returned_again"
    /\ Len(text_blocks) >= 10
    /\ Cardinality(Range(labels)) = 3
    /\ Len(heading_candidates) >= 2
    /\ heading_candidates = first_run.candidates

-----------------------------------------------------------------------------
(* Claims about extract_outline.                                           *)

\* C9: extract_outline never raises: whichever step fails, the call ends
\* with a result of a title string and an outline list, and on failure the
\* result is the default title 'Unknown' with an empty outline.
C9_NeverRaises ==
    /\ pc \in {"open", "title", "blocks", "language", "cluster", "build", "close",
               "done", "failed"}
    /\ pc \in {"done", "failed"} =>
          /\ DOMAIN result = {"title", "outline"}
          /\ result.title \in Seq(STRING)
          /\ DOMAIN result.outline = 1..Len(result.outline)
          /\ \A i \in DOMAIN result.outline :
                DOMAIN result.outline[i] = {"level", "text", "page"}
    /\ pc = "failed" => result = [title |-> Unknown, outline |-> <<>>]

\* a failure in clustering or outline building, after fragments and the
\* language were extracted from an open document
C9_Witness ==
    /\ pc = "failed"
    /\ doc_open = 1
    /\ Len(text_blocks) >= MinBlocks
    /\ language \in Languages
    /\ result.outline = <<>>

\* C30: every document handle opened by extract_outline is closed before the
\* call returns, on the success path and on every failure path.
C30_HandleClosedOnReturn == pc \in {"done", "failed"} => doc_open = 0

ZeroFragments == pc \in {"done", "failed"} /\ text_blocks = <<>>

HasMetadataTitle == Get(doc.metadata, "title", <<>>) # <<>>

\* the texts of the first-page spans that qualify as a title
FirstPageTitles ==
    IF Len(doc.pages) = 0 THEN {}
    ELSE LET spans == SpansOf(LinesOf(doc.pages[1].blocks))
         IN  { Strip(Get(spans[i], "text", <<>>)) :
                  i \in { j \in DOMAIN spans :
                            /\ Len(Strip(Get(spans[j], "text", <<>>))) > TitleMinLen
                            /\ Get(spans[j], "size", 0) > TitleMinSize } }

-----------------------------------------------------------------------------
(* The language classifiers: OutlineExtractor._detect_language and         *)
(* utils.detect_language_fast.                                             *)

JapaneseRanges == Hiragana \cup Katakana \cup Kanji

\* [^\s\d\W]: the word characters that are not digits
WordLetters == LowerLetters \cup UpperLetters \cup JapaneseRanges \cup {"_"}

FastMinLen == 10

\* jp_chars / total_chars > 0.1
FastRatioNum == 1

FastRatioDen == 10

\* len(re.findall(class, text))
CountIn(t, class) == Cardinality({i \in DOMAIN t : t[i] \in class})

\* detect_language_fast answers without the detector: 'unknown' or 'japanese'
FastWithoutDetector(t) ==
    IF Len(t) < FastMinLen THEN "unknown"
    ELSE IF CountIn(t, WordLetters) = 0 THEN "unknown"
    ELSE IF CountIn(t, JapaneseRanges) * FastRatioDen > FastRatioNum * CountIn(t, WordLetters)
    THEN "japanese"
    ELSE NoValue

\* lines 120-124
DetectedLanguage(answer) == IF answer = "ja" THEN "japanese" ELSE "english"

\* a line of n characters, taken in turn from chars
Line(chars, n) == [i \in 1..n |-> chars[((i - 1) % Len(chars)) + 1]]

MaxSampleBlocks == 2

\* the texts of sampled blocks: twelve Hiragana characters; twelve characters
\* of the three scripts; four Kanji; English; English with one Katakana
SampleLines ==
    { Line(<<"U+3042", "U+3044">>, 12),
      Line(<<"U+3042", "U+30A2", "U+6F22", "U+3044", "U+30AB", "U+5B57">>, 12),
      Line(<<"U+6F22", "U+5B57">>, 4),
      ChapterText,
      ShortBodyText \o <<"U+30A2">> }

SampleBlockLists ==
    UNION { [1..n -> {[text |-> t] : t \in SampleLines}] : n \in 0..MaxSampleBlocks }

\* arguments of detect_language_fast: empty, short, digits only, English,
\* two Japanese characters among nine letters, one among ten
FastTexts ==
    { <<>>, Line(<<"h", "i">>, 9), Line(<<"1", "2", " ">>, 12),
      Line(<<"U+3042">>, 9), ShortBodyText,
      Line(<<"a", "b", "c">>, 9) \o <<"U+3042", "U+6F22">>,
      Line(<<"a", "b", "c">>, 10) \o <<" ", "U+30A2">> }

InitLanguage ==
    /\ \/ pc = "detect" /\ text_blocks \in SampleBlockLists /\ text = <<>>
       \/ pc = "detect_fast" /\ text_blocks = <<>> /\ text \in FastTexts
    /\ language = NoValue
    /\ LanguageIdle
    /\ doc = NoValue /\ doc_open = 0 /\ title = NoValue /\ result = NoValue
    /\ labels = <<>> /\ scaler = NoValue /\ kmeans_fits = {} /\ rng_state = 0
    /\ first_run = NoValue
    /\ cleaned = <<>> /\ recleaned = <<>>
    /\ OutlineIdle /\ ScoreIdle /\ BatchIdle /\ MainIdle /\ LexicalIdle

\* OutlineExtractor._detect_language (lines 242-262)
DetectLanguageCall ==
    /\ pc = "detect"
    /\ \E answer \in DetectOutcomes :
          /\ DetectorCall(InvokesDetector(text_blocks), answer)
          /\ IF DetectLanguageRaises(text_blocks, answer)
             THEN pc' = "raised" /\ UNCHANGED language
             ELSE /\ language' = DetectLanguage(text_blocks, answer)
                  /\ pc' = "detected"
    /\ UNCHANGED <<doc, doc_open, title, result, clusterVars, outlineVars, cleanVars,
                   scoreVars, batchVars, mainVars, lexicalVars>>

\* utils.detect_language_fast (lines 110-124)
DetectLanguageFast ==
    /\ pc = "detect_fast"
    /\ \E answer \in DetectOutcomes :
          LET early == FastWithoutDetector(text)
          IN  /\ DetectorCall(early = NoValue, answer)
              /\ IF early # NoValue
                 THEN language' = early /\ pc' = "detected_fast"
                 ELSE IF answer = "RuntimeError"
                 THEN pc' = "raised_fast" /\ UNCHANGED language
                 ELSE language' = DetectedLanguage(answer) /\ pc' = "detected_fast"
    /\ UNCHANGED <<doc, doc_open, title, result, clusterVars, outlineVars, cleanVars,
                   scoreVars, batchVars, mainVars, lexicalVars>>

NextLanguage == DetectLanguageCall \/ DetectLanguageFast

SpecLanguage == InitLanguage /\ [][NextLanguage]_vars

-----------------------------------------------------------------------------
(* Claims about the language classifiers.                                  *)

\* the number of characters of the sample in the three Japanese ranges
JapaneseCharCount == CountIn(SampleText(text_blocks), JapaneseRanges)

\* C11: Scenario D: whenever the sampled text contains more than 10
\* characters of the Hiragana, Katakana or Kanji ranges, _detect_language
\* returns 'japanese' and the general detector is never invoked.
C11_ScenarioD ==
    (pc \in {"detected", "raised"} /\ JapaneseCharCount > JapaneseThreshold) =>
        /\ pc = "detected"
        /\ language = "japanese"
        /\ detector_calls = 0

\* C12 as stated: the result of a language classifier is always 'english' or
\* 'japanese', 'ja' giving japanese and every other code english, and a
\* failing detector gives 'english' and is never propagated.
C12_AlwaysEnglishOrJapanese ==
    /\ pc \notin {"raised", "raised_fast"}
    /\ pc \in {"detected", "detected_fast"} =>
          /\ language \in Languages
          /\ detector_calls = 1 =>
                language = IF detected = "ja" THEN "japanese" ELSE "english"

\* C12 (amended): _detect_language returns 'english' or 'japanese';
\* detect_language_fast returns 'unknown' exactly for a text shorter than 10
\* characters or without letters, and 'english' or 'japanese' otherwise; when
\* the detector is invoked 'ja' gives japanese, every other code and a
\* LangDetectError give english, and only an exception that is no
\* LangDetectError is propagated.
C12_LanguageResult ==
    /\ pc = "detected" => language \in Languages
    /\ pc = "detected_fast" =>
          /\ language \in Languages \cup {"unknown"}
          /\ language = "unknown" <=>
                (Len(text) < 10 \/ \A i \in DOMAIN text : text[i] \notin WordLetters)
    /\ (pc \in {"detected", "detected_fast"} /\ detector_calls = 1) =>
          /\ detected \in {"en", "ja", "fr", "LangDetectError"}
          /\ language = IF detected = "ja" THEN "japanese" ELSE "english"
    /\ pc \in {"raised", "raised_fast"} =>
          /\ detector_calls = 1
          /\ detected \notin {"en", "ja", "fr", "LangDetectError"}

\* the detector failed with LangDetectError on a sample with a Japanese
\* character and the classifier answered 'english'
C12_Witness ==
    /\ pc = "detected"
    /\ detector_calls = 1
    /\ detected = "LangDetectError"
    /\ JapaneseCharCount > 0
    /\ language = "english"

-----------------------------------------------------------------------------
(* The floating-point numbers of the relevance scores.  A double x with    *)
(* 0 <= x < 4 is the integer x * 2^57 written as <<a, b, c>> in base 2^20  *)
(* (a the most significant limb); every double in that range that is 0 or  *)
(* at least 2^-5 is such an integer.  Sums and products are rounded to 53  *)
(* significant bits, ties to even, as the hardware does.                   *)

Limb == 2^20

\* carries propagated from the least significant limb upwards
Norm(a, b, c) ==
    LET b0 == b + c \div Limb
    IN  <<a + b0 \div Limb, b0 % Limb, c % Limb>>

\* the unit in the last place of a number whose top limb is a, in units of 2^-57
Ulp(a) ==
    IF a < 2^13 THEN 1 ELSE IF a < 2^14 THEN 2 ELSE IF a < 2^15 THEN 4
    ELSE IF a < 2^16 THEN 8 ELSE IF a < 2^17 THEN 16 ELSE IF a < 2^18 THEN 32
    ELSE 64

\* the double nearest to n + rem / den (0 <= rem < den), ties to even
RoundTo(n, rem, den) ==
    LET u == Ulp(n[1])
        r == n[3] % u
        x == 2 * (r * den + rem)
        y == u * den
        up == x > y \/ (x = y /\ (n[3] \div u) % 2 = 1)
    IN  Norm(n[1], n[2], n[3] - r + (IF up THEN u ELSE 0))

\* the double written num/den in decimal notation, as 0.1 is 1/10
Double(num, den) ==
    LET t1 == num * 2^17
        r1 == t1 % den
        r2 == (r1 * Limb) % den
        r3 == (r2 * Limb) % den
    IN  RoundTo(<<t1 \div den, (r1 * Limb) \div den, (r2 * Limb) \div den>>, r3, den)

\* x + y
FAdd(x, y) == RoundTo(Norm(x[1] + y[1], x[2] + y[2], x[3] + y[3]), 0, 1)

\* n * x for an int n
FMulInt(n, x) == RoundTo(Norm(n * x[1], n * x[2], n * x[3]), 0, 1)

\* x < y
FLess(x, y) ==
    \/ x[1] < y[1]
    \/ x[1] = y[1] /\ x[2] < y[2]
    \/ x[1] = y[1] /\ x[2] = y[2] /\ x[3] < y[3]

\* min(x, y)
FMin(x, y) == IF FLess(y, x) THEN y ELSE x

\* round(x, 3), in thousandths: the multiple of 0.001 nearest to x, ties to even
RoundMillis(x) ==
    LET t0 == x[3] * 1000
        t1 == x[2] * 1000 + t0 \div Limb
        t2 == x[1] * 1000 + t1 \div Limb
        q == t2 \div 2^17
        top == t2 % 2^17
        low == (t1 % Limb) + (t0 % Limb)
        above == top > 2^16 \/ (top = 2^16 /\ low > 0)
        tie == top = 2^16 /\ low = 0
    IN  IF above \/ (tie /\ q % 2 = 1) THEN q + 1 ELSE q

Zero == <<0, 0, 0>>

\* line 356: keyword_matches * 0.1
KeywordWeight == Double(1, 10)

\* line 363: pattern_matches * 0.3
PatternWeight == Double(3, 10)

\* line 369: context_keyword_matches * 0.05
ContextWeight == Double(5, 100)

\* line 375: score += 0.4
PredictionWeight == Double(4, 10)

\* line 379: min(score, 1.0)
ScoreCap == Double(1, 1)

\* line 317: score > 0.3
RelevanceThreshold == Double(3, 10)

\* a score that leaves the pattern matches out
TaskScoreWithoutPatterns(keyword_matches, pattern_matches, has_context, context_keyword_matches, predicted) ==
    LET s1 == FAdd(Zero, FMulInt(keyword_matches, KeywordWeight))
        s3 == IF has_context
              THEN FAdd(s1, FMulInt(context_keyword_matches, ContextWeight))
              ELSE s1
        s4 == IF predicted THEN FAdd(s3, PredictionWeight) ELSE s3
    IN  FMin(s4, ScoreCap)

\* lines 350-379: the score of a task with keyword_matches, pattern_matches,
\* context_keyword_matches, given whether there is a context and whether the
\* classifier predicted the task
TaskScore(keyword_matches, pattern_matches, has_context, context_keyword_matches, predicted) ==
    LET s1 == FAdd(Zero, FMulInt(keyword_matches, KeywordWeight))
        s2 == FAdd(s1, FMulInt(pattern_matches, PatternWeight))
        s3 == IF has_context THEN FAdd(s2, FMulInt(context_keyword_matches, ContextWeight))
              ELSE s2
        s4 == IF predicted THEN FAdd(s3, PredictionWeight) ELSE s3
    IN  FMin(s4, ScoreCap)

\* ---------------------------------------------------------------------------
\* The task taxonomy and the section types (challenge1b persona_extractor.py)
\* ---------------------------------------------------------------------------

\* lines 41-114: the tasks in the order of self.persona_tasks
TaskNames ==
    << "data_analysis", "system_design", "implementation", "troubleshooting", "optimization",
       "documentation", "planning", "collaboration" >>

\* lines 41-114: self.persona_tasks.  A pattern (?:a|b)\s+(?:c|d) is the
\* sequence of its groups, a group the set of the texts it matches (x? read as
\* with and without x)
persona_tasks ==
    [
      data_analysis |->
        [keywords |->
           { <<"a","n","a","l","y","z","e">>, <<"a","n","a","l","y","s","i","s">>,
                       <<"d","a","t","a">>, <<"s","t","a","t","i","s","t","i","c","s">>,
                       <<"m","e","t","r","i","c","s">>, <<"i","n","s","i","g","h","t","s">>,
                       <<"t","r","e","n","d","s">>, <<"p","a","t","t","e","r","n","s">> },
         patterns |->
           << << { <<"d","a","t","a">>,
                            <<"s","t","a","t","i","s","t","i","c","a","l">>,
                            <<"q","u","a","n","t","i","t","a","t","i","v","e">> },
                          { <<"a","n","a","l","y","s","i","s">>,
                            <<"e","x","a","m","i","n","a","t","i","o","n">>,
                            <<"s","t","u","d","y">> } >>,
                       << { <<"a","n","a","l","y","z","e">>, <<"e","x","a","m","i","n","e">>,
                            <<"i","n","v","e","s","t","i","g","a","t","e">> },
                          { <<"d","a","t","a">>, <<"r","e","s","u","l","t","s">>,
                            <<"f","i","n","d","i","n","g","s">> } >>,
                       << { <<"m","e","t","r","i","c","s">>, <<"k","p","i">>,
                            <<"k","p","i","s">>, <<"i","n","d","i","c","a","t","o","r","s">> },
                          { <<"s","h","o","w">>, <<"i","n","d","i","c","a","t","e">>,
                            <<"r","e","v","e","a","l">> } >>,
                       << { <<"t","r","e","n","d","s">>, <<"p","a","t","t","e","r","n","s">>,
                            <<"c","o","r","r","e","l","a","t","i","o","n","s">> },
                          { <<"i","n">>, <<"w","i","t","h","i","n">>,
                            <<"a","c","r","o","s","s">> } >> >>],
      system_design |->
        [keywords |->
           { <<"a","r","c","h","i","t","e","c","t","u","r","e">>,
                       <<"d","e","s","i","g","n">>, <<"s","y","s","t","e","m">>,
                       <<"f","r","a","m","e","w","o","r","k">>,
                       <<"s","t","r","u","c","t","u","r","e">>,
                       <<"c","o","m","p","o","n","e","n","t","s">>,
                       <<"m","o","d","u","l","e","s">> },
         patterns |->
           << << { <<"s","y","s","t","e","m">>, <<"s","o","f","t","w","a","r","e">>,
                            <<"a","p","p","l","i","c","a","t","i","o","n">> },
                          { <<"a","r","c","h","i","t","e","c","t","u","r","e">>,
                            <<"d","e","s","i","g","n">>,
                            <<"s","t","r","u","c","t","u","r","e">> } >>,
                       << { <<"c","o","m","p","o","n","e","n","t">>,
                            <<"c","o","m","p","o","n","e","n","t","s">>,
                            <<"m","o","d","u","l","e">>, <<"m","o","d","u","l","e","s">>,
                            <<"s","e","r","v","i","c","e">>,
                            <<"s","e","r","v","i","c","e","s">> },
                          { <<"i","n","t","e","r","a","c","t">>,
                            <<"c","o","m","m","u","n","i","c","a","t","e">>,
                            <<"i","n","t","e","g","r","a","t","e">> } >>,
                       << { <<"f","r","a","m","e","w","o","r","k">>,
                            <<"p","l","a","t","f","o","r","m">>,
                            <<"i","n","f","r","a","s","t","r","u","c","t","u","r","e">> },
                          { <<"s","u","p","p","o","r","t">>,
                            <<"s","u","p","p","o","r","t","s">>, <<"e","n","a","b","l","e">>,
                            <<"e","n","a","b","l","e","s">>, <<"p","r","o","v","i","d","e">>,
                            <<"p","r","o","v","i","d","e","s">> } >>,
                       << { <<"s","c","a","l","a","b","l","e">>,
                            <<"m","o","d","u","l","a","r">>,
                            <<"d","i","s","t","r","i","b","u","t","e","d">> },
                          { <<"d","e","s","i","g","n">>,
                            <<"a","r","c","h","i","t","e","c","t","u","r","e">>,
                            <<"s","y","s","t","e","m">> } >> >>],
      implementation |->
        [keywords |->
           { <<"i","m","p","l","e","m","e","n","t">>,
                       <<"d","e","v","e","l","o","p">>, <<"b","u","i","l","d">>,
                       <<"c","r","e","a","t","e">>, <<"c","o","d","e">>,
                       <<"p","r","o","g","r","a","m","m","i","n","g">>,
                       <<"d","e","p","l","o","y","m","e","n","t">> },
         patterns |->
           << << { <<"i","m","p","l","e","m","e","n","t">>,
                            <<"d","e","v","e","l","o","p">>, <<"b","u","i","l","d">>,
                            <<"c","r","e","a","t","e">> },
                          { <<"s","o","l","u","t","i","o","n">>, <<"s","y","s","t","e","m">>,
                            <<"a","p","p","l","i","c","a","t","i","o","n">>,
                            <<"f","e","a","t","u","r","e">> } >>,
                       << { <<"c","o","d","e">>,
                            <<"p","r","o","g","r","a","m","m","i","n","g">>,
                            <<"d","e","v","e","l","o","p","m","e","n","t">> },
                          { <<"s","t","a","n","d","a","r","d","s">>,
                            <<"p","r","a","c","t","i","c","e","s">>,
                            <<"g","u","i","d","e","l","i","n","e","s">> } >>,
                       << { <<"d","e","p","l","o","y","m","e","n","t">>,
                            <<"i","n","s","t","a","l","l","a","t","i","o","n">>,
                            <<"s","e","t","u","p">> },
                          { <<"p","r","o","c","e","s","s">>,
                            <<"p","r","o","c","e","d","u","r","e">>, <<"s","t","e","p","s">> } >>,
                       << { <<"t","e","s","t","i","n","g">>,
                            <<"v","a","l","i","d","a","t","i","o","n">>,
                            <<"v","e","r","i","f","i","c","a","t","i","o","n">> },
                          { <<"a","p","p","r","o","a","c","h">>,
                            <<"s","t","r","a","t","e","g","y">>,
                            <<"m","e","t","h","o","d","s">> } >> >>],
      troubleshooting |->
        [keywords |->
           { <<"d","e","b","u","g">>,
                       <<"t","r","o","u","b","l","e","s","h","o","o","t">>,
                       <<"e","r","r","o","r">>, <<"i","s","s","u","e">>,
                       <<"p","r","o","b","l","e","m">>, <<"f","i","x">>,
                       <<"r","e","s","o","l","v","e">>, <<"s","o","l","u","t","i","o","n">> },
         patterns |->
           << << { <<"d","e","b","u","g">>,
                            <<"t","r","o","u","b","l","e","s","h","o","o","t">>,
                            <<"d","i","a","g","n","o","s","e">> },
                          { <<"i","s","s","u","e">>, <<"i","s","s","u","e","s">>,
                            <<"p","r","o","b","l","e","m">>,
                            <<"p","r","o","b","l","e","m","s">>, <<"e","r","r","o","r">>,
                            <<"e","r","r","o","r","s">> } >>,
                       << { <<"c","o","m","m","o","n">>, <<"t","y","p","i","c","a","l">>,
                            <<"f","r","e","q","u","e","n","t">> },
                          { <<"i","s","s","u","e">>, <<"i","s","s","u","e","s">>,
                            <<"p","r","o","b","l","e","m">>,
                            <<"p","r","o","b","l","e","m","s">>, <<"e","r","r","o","r">>,
                            <<"e","r","r","o","r","s">> } >>,
                       << { <<"e","r","r","o","r">>, <<"e","x","c","e","p","t","i","o","n">>,
                            <<"f","a","i","l","u","r","e">> },
                          { <<"h","a","n","d","l","i","n","g">>,
                            <<"m","a","n","a","g","e","m","e","n","t">>,
                            <<"r","e","c","o","v","e","r","y">> } >>,
                       << { <<"f","i","x">>, <<"r","e","s","o","l","v","e">>,
                            <<"s","o","l","v","e">>, <<"a","d","d","r","e","s","s">> },
                          { <<"p","r","o","b","l","e","m">>,
                            <<"p","r","o","b","l","e","m","s">>, <<"i","s","s","u","e">>,
                            <<"i","s","s","u","e","s">>, <<"b","u","g">>, <<"b","u","g","s">> } >> >>],
      optimization |->
        [keywords |->
           { <<"o","p","t","i","m","i","z","e">>,
                       <<"p","e","r","f","o","r","m","a","n","c","e">>,
                       <<"e","f","f","i","c","i","e","n","c","y">>,
                       <<"i","m","p","r","o","v","e">>, <<"e","n","h","a","n","c","e">>,
                       <<"t","u","n","i","n","g">> },
         patterns |->
           << << { <<"o","p","t","i","m","i","z","e">>,
                            <<"i","m","p","r","o","v","e">>, <<"e","n","h","a","n","c","e">> },
                          { <<"p","e","r","f","o","r","m","a","n","c","e">>,
                            <<"e","f","f","i","c","i","e","n","c","y">>,
                            <<"s","p","e","e","d">> } >>,
                       << { <<"p","e","r","f","o","r","m","a","n","c","e">>,
                            <<"e","f","f","i","c","i","e","n","c","y">> },
                          { <<"t","u","n","i","n","g">>,
                            <<"o","p","t","i","m","i","z","a","t","i","o","n">>,
                            <<"i","m","p","r","o","v","e","m","e","n","t">> } >>,
                       << { <<"b","o","t","t","l","e","n","e","c","k">>,
                            <<"b","o","t","t","l","e","n","e","c","k","s">>,
                            <<"c","o","n","s","t","r","a","i","n","t">>,
                            <<"c","o","n","s","t","r","a","i","n","t","s">>,
                            <<"l","i","m","i","t","a","t","i","o","n">>,
                            <<"l","i","m","i","t","a","t","i","o","n","s">> },
                          { <<"i","d","e","n","t","i","f","i","e">>,
                            <<"i","d","e","n","t","i","f","i","e","d">>,
                            <<"a","d","d","r","e","s","s","e">>,
                            <<"a","d","d","r","e","s","s","e","d">> } >>,
                       << { <<"s","c","a","l","a","b","i","l","i","t","y">>,
                            <<"t","h","r","o","u","g","h","p","u","t">>,
                            <<"l","a","t","e","n","c","y">> },
                          { <<"c","o","n","s","i","d","e","r","a","t","i","o","n">>,
                            <<"c","o","n","s","i","d","e","r","a","t","i","o","n","s">>,
                            <<"r","e","q","u","i","r","e","m","e","n","t">>,
                            <<"r","e","q","u","i","r","e","m","e","n","t","s">> } >> >>],
      documentation |->
        [keywords |->
           { <<"d","o","c","u","m","e","n","t">>,
                       <<"d","o","c","u","m","e","n","t","a","t","i","o","n">>,
                       <<"g","u","i","d","e">>, <<"m","a","n","u","a","l">>,
                       <<"i","n","s","t","r","u","c","t","i","o","n","s">>,
                       <<"p","r","o","c","e","d","u","r","e","s">> },
         patterns |->
           << << { <<"d","o","c","u","m","e","n","t","a","t","i","o","n">>,
                            <<"g","u","i","d","e">>, <<"m","a","n","u","a","l">> },
                          { <<"p","r","o","v","i","d","e">>,
                            <<"p","r","o","v","i","d","e","s">>,
                            <<"d","e","s","c","r","i","b","e">>,
                            <<"d","e","s","c","r","i","b","e","s">>,
                            <<"e","x","p","l","a","i","n">>,
                            <<"e","x","p","l","a","i","n","s">> } >>,
                       << { <<"i","n","s","t","r","u","c","t","i","o","n">>,
                            <<"i","n","s","t","r","u","c","t","i","o","n","s">>,
                            <<"p","r","o","c","e","d","u","r","e">>,
                            <<"p","r","o","c","e","d","u","r","e","s">>, <<"s","t","e","p">>,
                            <<"s","t","e","p","s">> },
                          { <<"f","o","r">>, <<"t","o">> },
                          { <<"f","o","l","l","o","w">>, <<"c","o","m","p","l","e","t","e">> } >>,
                       << { <<"r","e","f","e","r","e","n","c","e">>,
                            <<"s","p","e","c","i","f","i","c","a","t","i","o","n">>,
                            <<"s","t","a","n","d","a","r","d">> },
                          { <<"d","o","c","u","m","e","n","t">>, <<"g","u","i","d","e">>,
                            <<"m","a","n","u","a","l">> } >>,
                       << { <<"u","s","e","r">>, <<"t","e","c","h","n","i","c","a","l">>,
                            <<"a","p","i">> },
                          { <<"d","o","c","u","m","e","n","t","a","t","i","o","n">>,
                            <<"g","u","i","d","e">>, <<"r","e","f","e","r","e","n","c","e">> } >> >>],
      planning |->
        [keywords |->
           { <<"p","l","a","n">>, <<"s","t","r","a","t","e","g","y">>,
                       <<"r","o","a","d","m","a","p">>, <<"t","i","m","e","l","i","n","e">>,
                       <<"s","c","h","e","d","u","l","e">>,
                       <<"r","e","q","u","i","r","e","m","e","n","t","s">>,
                       <<"o","b","j","e","c","t","i","v","e","s">> },
         patterns |->
           << << { <<"p","l","a","n">>, <<"s","t","r","a","t","e","g","y">>,
                            <<"r","o","a","d","m","a","p">> },
                          { <<"f","o","r">>, <<"t","o">> },
                          { <<"i","m","p","l","e","m","e","n","t">>,
                            <<"a","c","h","i","e","v","e">>, <<"d","e","l","i","v","e","r">> } >>,
                       << { <<"r","e","q","u","i","r","e","m","e","n","t">>,
                            <<"r","e","q","u","i","r","e","m","e","n","t","s">>,
                            <<"o","b","j","e","c","t","i","v","e">>,
                            <<"o","b","j","e","c","t","i","v","e","s">>, <<"g","o","a","l">>,
                            <<"g","o","a","l","s">> },
                          { <<"d","e","f","i","n","e">>, <<"d","e","f","i","n","e","d">>,
                            <<"s","p","e","c","i","f","i","e">>,
                            <<"s","p","e","c","i","f","i","e","d">>,
                            <<"o","u","t","l","i","n","e">>,
                            <<"o","u","t","l","i","n","e","d">> } >>,
                       << { <<"t","i","m","e","l","i","n","e">>,
                            <<"s","c","h","e","d","u","l","e">>,
                            <<"m","i","l","e","s","t","o","n","e">>,
                            <<"m","i","l","e","s","t","o","n","e","s">> },
                          { <<"f","o","r">>, <<"o","f">> },
                          { <<"p","r","o","j","e","c","t">>,
                            <<"d","e","v","e","l","o","p","m","e","n","t">> } >>,
                       << { <<"p","h","a","s","e">>, <<"p","h","a","s","e","s">>,
                            <<"s","t","a","g","e">>, <<"s","t","a","g","e","s">>,
                            <<"i","t","e","r","a","t","i","o","n">>,
                            <<"i","t","e","r","a","t","i","o","n","s">> },
                          { <<"o","f">>, <<"i","n">> },
                          { <<"d","e","v","e","l","o","p","m","e","n","t">>,
                            <<"i","m","p","l","e","m","e","n","t","a","t","i","o","n">> } >> >>],
      collaboration |->
        [keywords |->
           { <<"c","o","l","l","a","b","o","r","a","t","e">>, <<"t","e","a","m">>,
                       <<"c","o","m","m","u","n","i","c","a","t","i","o","n">>,
                       <<"c","o","o","r","d","i","n","a","t","i","o","n">>,
                       <<"s","t","a","k","e","h","o","l","d","e","r">>,
                       <<"m","e","e","t","i","n","g">> },
         patterns |->
           << << { <<"c","o","l","l","a","b","o","r","a","t","e">>,
                            <<"c","o","o","r","d","i","n","a","t","e">>,
                            <<"c","o","m","m","u","n","i","c","a","t","e">> },
                          { <<"w","i","t","h">>, <<"b","e","t","w","e","e","n">> },
                          { <<"t","e","a","m">>, <<"t","e","a","m","s">>,
                            <<"s","t","a","k","e","h","o","l","d","e","r">>,
                            <<"s","t","a","k","e","h","o","l","d","e","r","s">> } >>,
                       << { <<"m","e","e","t","i","n","g">>,
                            <<"m","e","e","t","i","n","g","s">>,
                            <<"d","i","s","c","u","s","s","i","o","n">>,
                            <<"d","i","s","c","u","s","s","i","o","n","s">>,
                            <<"r","e","v","i","e","w">>, <<"r","e","v","i","e","w","s">> },
                          { <<"w","i","t","h">>, <<"b","e","t","w","e","e","n">>,
                            <<"a","m","o","n","g">> } >>,
                       << { <<"s","t","a","k","e","h","o","l","d","e","r">>,
                            <<"c","l","i","e","n","t">>, <<"c","u","s","t","o","m","e","r">> },
                          { <<"e","n","g","a","g","e","m","e","n","t">>,
                            <<"c","o","m","m","u","n","i","c","a","t","i","o","n">>,
                            <<"f","e","e","d","b","a","c","k">> } >>,
                       << { <<"c","r","o","s","s","-","f","u","n","c","t","i","o","n","a","l">>,
                            <<"i","n","t","e","r","d","i","s","c","i","p","l","i","n","a","r","y">> },
                          { <<"c","o","l","l","a","b","o","r","a","t","i","o","n">>,
                            <<"c","o","o","r","d","i","n","a","t","i","o","n">> } >> >>]
    ]

\* lines 117-138: the section types in the order of self.section_type_patterns
SectionTypes ==
    << "methodology", "requirements", "examples", "best_practices", "tools_resources" >>

\* lines 117-138: self.section_type_patterns
section_type_patterns ==
    [
      methodology |->
         << << { <<"m","e","t","h","o","d","o","l","o","g","y">>,
                 <<"a","p","p","r","o","a","c","h">>, <<"m","e","t","h","o","d">>,
                 <<"t","e","c","h","n","i","q","u","e">>,
                 <<"p","r","o","c","e","d","u","r","e">> } >>,
            << { <<"s","t","e","p","-","b","y","-","s","t","e","p">>,
                 <<"p","r","o","c","e","s","s">>, <<"w","o","r","k","f","l","o","w">>,
                 <<"p","i","p","e","l","i","n","e">> } >> >>,
      requirements |->
         << << { <<"r","e","q","u","i","r","e","m","e","n","t">>,
                 <<"r","e","q","u","i","r","e","m","e","n","t","s">>,
                 <<"s","p","e","c","i","f","i","c","a","t","i","o","n">>,
                 <<"s","p","e","c","i","f","i","c","a","t","i","o","n","s">>,
                 <<"c","r","i","t","e","r","i","a">>,
                 <<"c","o","n","s","t","r","a","i","n","t">>,
                 <<"c","o","n","s","t","r","a","i","n","t","s">> } >>,
            << { <<"m","u","s","t">>, <<"s","h","o","u","l","d">>, <<"s","h","a","l","l">>,
                 <<"r","e","q","u","i","r","e","d">>, <<"m","a","n","d","a","t","o","r","y">>,
                 <<"o","p","t","i","o","n","a","l">> } >> >>,
      examples |->
         << << { <<"e","x","a","m","p","l","e">>, <<"s","a","m","p","l","e">>,
                 <<"i","l","l","u","s","t","r","a","t","i","o","n">>,
                 <<"c","a","s","e"," ","s","t","u","d","y">>,
                 <<"d","e","m","o","n","s","t","r","a","t","i","o","n">> } >>,
            << { <<"f","o","r"," ","i","n","s","t","a","n","c","e">>,
                 <<"f","o","r"," ","e","x","a","m","p","l","e">>,
                 <<"s","u","c","h"," ","a","s">>, <<"i","n","c","l","u","d","i","n","g">> } >> >>,
      best_practices |->
         << << { <<"b","e","s","t"," ","p","r","a","c","t","i","c","e">>,
                 <<"b","e","s","t"," ","p","r","a","c","t","i","c","e","s">>,
                 <<"r","e","c","o","m","m","e","n","d","a","t","i","o","n">>,
                 <<"r","e","c","o","m","m","e","n","d","a","t","i","o","n","s">>,
                 <<"g","u","i","d","e","l","i","n","e">>,
                 <<"g","u","i","d","e","l","i","n","e","s">>,
                 <<"s","t","a","n","d","a","r","d">>, <<"s","t","a","n","d","a","r","d","s">> } >>,
            << { <<"r","e","c","o","m","m","e","n","d","e","d">>,
                 <<"s","u","g","g","e","s","t","e","d">>,
                 <<"p","r","e","f","e","r","r","e","d">>, <<"o","p","t","i","m","a","l">> } >> >>,
      tools_resources |->
         << << { <<"t","o","o","l">>, <<"t","o","o","l","s">>,
                 <<"r","e","s","o","u","r","c","e">>, <<"r","e","s","o","u","r","c","e","s">>,
                 <<"u","t","i","l","i","t","i","e","s">>,
                 <<"l","i","b","r","a","r","i","e","s">>,
                 <<"f","r","a","m","e","w","o","r","k">>,
                 <<"f","r","a","m","e","w","o","r","k","s">> } >>,
            << { <<"u","s","i","n","g">>, <<"w","i","t","h">>, <<"v","i","a">>,
                 <<"t","h","r","o","u","g","h">>, <<"l","e","v","e","r","a","g","i","n","g">> } >> >>
    ]

\* ---------------------------------------------------------------------------
\* The relevance scorer (challenge1b persona_extractor.py)
\* ---------------------------------------------------------------------------

\* keyword in text_lower: the keyword is a substring of the text
Contains(t, w) ==
    \E i \in 1..(Len(t) - Len(w) + 1) : SubSeq(t, i, i + Len(w) - 1) = w

\* the groups g.. of a pattern match the text from position i on, successive
\* groups being separated by \s+
RECURSIVE MatchFrom(_, _, _, _)
MatchFrom(t, i, groups, g) ==
    \E w \in groups[g] :
        /\ i + Len(w) - 1 <= Len(t)
        /\ SubSeq(t, i, i + Len(w) - 1) = w
        /\ \/ g = Len(groups)
           \/ \E j \in (i + Len(w) + 1)..Len(t) :
                  /\ \A m \in (i + Len(w))..(j - 1) : t[m] \in Whitespace
                  /\ MatchFrom(t, j, groups, g + 1)

\* re.search(pattern, text)
Search(groups, t) == \E i \in DOMAIN t : MatchFrom(t, i, groups, 1)

KeywordMatches(task, t) ==
    Cardinality({w \in persona_tasks[task].keywords : Contains(t, w)})

PatternMatches(task, t) ==
    LET patterns == persona_tasks[task].patterns
    IN  Cardinality({n \in DOMAIN patterns : Search(patterns[n], t)})

\* what text_classifier.predict gives when the classifier was never fitted
NotFitted == "NotFittedError"

Predictions == Range(TaskNames) \cup {NotFitted}

\* lines 353-367: the keyword, pattern and context keyword matches of a task
MatchCounts(task, text_lower, context_lower) ==
    <<KeywordMatches(task, text_lower), PatternMatches(task, text_lower),
      KeywordMatches(task, context_lower)>>

\* lines 342-379 for lower-cased texts: the score of every task, in the order
\* of the tasks
ScoresOfLower(text_lower, context_lower, predicted) ==
    [n \in DOMAIN TaskNames |->
        CHOOSE score \in
            {TaskScore(m[1], m[2], context_lower # <<>>, m[3],
                       predicted = TaskNames[n]) :
                m \in {MatchCounts(TaskNames[n], text_lower, context_lower)}} : TRUE]

\* _score_section_for_tasks
ScoreSectionForTasks(t, context, predicted) ==
    CHOOSE scores \in
        {ScoresOfLower(lower[1], lower[2], predicted) :
            lower \in {<<Lower(t), Lower(context)>>}} : TRUE

TaskIndex(task) == CHOOSE n \in DOMAIN TaskNames : TaskNames[n] = task

\* line 266: paragraphs shorter than this are skipped
MinParagraphLen == 20

\* lines 256-285: _extract_text_with_context, a page being the list of the
\* paragraphs that re.split gives
RECURSIVE ParagraphItems(_, _, _)
ParagraphItems(paragraphs, page_num, i) ==
    IF i > Len(paragraphs) THEN <<>>
    ELSE LET paragraph == Strip(paragraphs[i])
             context_before == IF i > 1 THEN paragraphs[i - 1] ELSE <<>>
             context_after == IF i < Len(paragraphs) THEN paragraphs[i + 1] ELSE <<>>
             item == [text |-> paragraph,
                      page |-> page_num,
                      context_before |-> Strip(context_before),
                      context_after |-> Strip(context_after),
                      full_context |->
                          Strip(context_before \o <<" ">> \o paragraph
                                \o <<" ">> \o context_after)]
         IN  (IF Len(paragraph) < MinParagraphLen THEN <<>> ELSE <<item>>)
             \o ParagraphItems(paragraphs, page_num, i + 1)

RECURSIVE ExtractTextWithContext(_, _)
ExtractTextWithContext(pages, page_num) ==
    IF page_num > Len(pages) THEN <<>>
    ELSE ParagraphItems(pages[page_num], page_num, 1)
         \o ExtractTextWithContext(pages, page_num + 1)

\* line 392: texts longer than this are detailed explanations
DetailedLen == 500

\* line 394
ProcedureWords ==
    { <<"s","t","e","p">>,
      <<"f","i","r","s","t">>,
      <<"t","h","e","n">>,
      <<"n","e","x","t">>,
      <<"f","i","n","a","l","l","y">> }

\* line 396
ExampleWords ==
    { <<"e","x","a","m","p","l","e">>,
      <<"i","n","s","t","a","n","c","e">>,
      <<"c","a","s","e">> }

\* lines 380-397: _classify_section_type
ClassifySectionType(t) ==
    LET text_lower == Lower(t)
        hits == {n \in DOMAIN SectionTypes :
                    \E p \in DOMAIN section_type_patterns[SectionTypes[n]] :
                        Search(section_type_patterns[SectionTypes[n]][p], text_lower)}
    IN  IF hits # {} THEN SectionTypes[Min(hits)]
        ELSE IF Len(t) > DetailedLen THEN "detailed_explanation"
        ELSE IF \E w \in ProcedureWords : Contains(text_lower, w) THEN "procedure"
        ELSE IF \E w \in ExampleWords : Contains(text_lower, w) THEN "examples"
        ELSE "general_content"

\* line 323: the tasks kept for one section
TopTasks == 3

\* line 401: the length of the key of a section
KeyLen == 100

\* line 409: two keys are duplicates above this word similarity, 0.8
DuplicateNum == 4
DuplicateDen == 5

\* line 420: the sections returned
MaxSections == 20

Take(s, n) == SubSeq(s, 1, IF Len(s) < n THEN Len(s) ELSE n)

\* line 320: relevant_tasks.sort(key=score, reverse=True), a stable sort of
\* the pairs <<task, score>>
RECURSIVE SortByScore(_)
SortByScore(pairs) ==
    IF pairs = <<>> THEN <<>>
    ELSE LET rest == SortByScore(SubSeq(pairs, 1, Len(pairs) - 1))
             x == pairs[Len(pairs)]
             k == Cardinality({i \in DOMAIN rest : ~FLess(rest[i][2], x[2])})
         IN  SubSeq(rest, 1, k) \o <<x>> \o SubSeq(rest, k + 1, Len(rest))

\* line 317: the tasks whose score is above the threshold, in task order
RECURSIVE RelevantTasks(_, _)
RelevantTasks(scores, n) ==
    IF n > Len(scores) THEN <<>>
    ELSE (IF FLess(RelevanceThreshold, scores[n])
          THEN <<<<TaskNames[n], scores[n]>>>> ELSE <<>>)
         \o RelevantTasks(scores, n + 1)

\* lines 326-334: the section of one item, its scores rounded to thousandths
Section(item, relevant_tasks) ==
    LET top == Take(SortByScore(relevant_tasks), TopTasks)
    IN  [text |-> item.text,
         page |-> item.page,
         relevant_tasks |-> [n \in DOMAIN top |-> top[n][1]],
         relevance_scores |-> [n \in DOMAIN top |-> RoundMillis(top[n][2])],
         section_type |-> ClassifySectionType(item.text),
         length |-> Len(item.text),
         context_available |->
             item.context_before # <<>> \/ item.context_after # <<>>]

\* text.split(): the words of a text
Words(t) ==
    {SubSeq(t, i, j) : <<i, j>> \in
        {p \in (DOMAIN t) \X (DOMAIN t) :
            /\ p[1] <= p[2]
            /\ \A m \in p[1]..p[2] : t[m] \notin Whitespace
            /\ p[1] = 1 \/ t[p[1] - 1] \in Whitespace
            /\ p[2] = Len(t) \/ t[p[2] + 1] \in Whitespace}}

\* lines 422-434: _text_similarity(text1, text2) > 0.8
VerySimilar(text1, text2) ==
    LET words1 == Words(text1)
        words2 == Words(text2)
    IN  /\ words1 # {}
        /\ words2 # {}
        /\ DuplicateDen * Cardinality(words1 \cap words2)
               > DuplicateNum * Cardinality(words1 \cup words2)

\* line 404: sections.sort(key=max(relevance_scores.values()), reverse=True)
RECURSIVE SortByRelevance(_)
SortByRelevance(sections) ==
    IF sections = <<>> THEN <<>>
    ELSE LET rest == SortByRelevance(SubSeq(sections, 1, Len(sections) - 1))
             x == sections[Len(sections)]
             key(s) == Max(Range(s.relevance_scores))
             k == Cardinality({i \in DOMAIN rest : key(rest[i]) >= key(x)})
         IN  SubSeq(rest, 1, k) \o <<x>> \o SubSeq(rest, k + 1, Len(rest))

\* lines 406-418: the sections whose key is not very similar to a seen key
RECURSIVE UniqueSections(_, _)
UniqueSections(sections, seen_texts) ==
    IF sections = <<>> THEN <<>>
    ELSE LET section == Head(sections)
             text_key == Strip(Lower(Take(section.text, KeyLen)))
         IN  IF \E seen_text \in seen_texts : VerySimilar(text_key, seen_text)
             THEN UniqueSections(Tail(sections), seen_texts)
             ELSE <<section>>
                  \o UniqueSections(Tail(sections), seen_texts \cup {text_key})

\* the order of the input kept: the sort of line 404 left out
DeduplicateSectionsUnsorted(sections) == Take(UniqueSections(sections, {}), MaxSections)

\* lines 399-420: _deduplicate_sections
DeduplicateSections(sections) ==
    Take(UniqueSections(SortByRelevance(sections), {}), MaxSections)

\* lines 308-313: the scores of every item, predicted[i] being what the
\* classifier predicts for the text of item i
TaskScores(items, predicted) ==
    [i \in DOMAIN items |->
        ScoreSectionForTasks(items[i].text, items[i].full_context, predicted[i])]

RECURSIVE SectionsOf(_, _, _)
SectionsOf(items, scores, i) ==
    IF i > Len(items) THEN <<>>
    ELSE LET relevant_tasks == RelevantTasks(scores[i], 1)
         IN  (IF relevant_tasks # <<>>
              THEN <<Section(items[i], relevant_tasks)>> ELSE <<>>)
             \o SectionsOf(items, scores, i + 1)

\* lines 315-339: the sections made from the scores of the items
SectionsFromScores(items, scores) ==
    DeduplicateSections(SectionsOf(items, scores, 1))

\* lines 303-340: _extract_task_sections
ExtractTaskSections(items, predicted) ==
    SectionsFromScores(items, TaskScores(items, predicted))

OptimizeParagraph ==
    <<"o","p","t","i","m","i","z","e"," ","p","e","r","f","o","r","m","a","n",
      "c","e"," ","b","o","t","t","l","e","n","e","c","k">>

TrendsParagraph ==
    <<"d","a","t","a"," ","o","n"," ","w","e","e","k","l","y"," ","t","r","e",
      "n","d","s">>

ReferenceParagraph ==
    <<"s","e","e"," ","t","h","e"," ","a","p","i"," ","r","e","f","e","r","e",
      "n","c","e"," ","n","o","w">>

ManyTasksParagraph ==
    <<"a","n","a","l","y","z","e"," ","d","a","t","a"," ","t","r","e","n","d",
      "s",","," ","s","y","s","t","e","m"," ","d","e","s","i","g","n"," ","a",
      "r","c","h","i","t","e","c","t","u","r","e",","," ","d","e","b","u","g",
      " ","e","r","r","o","r"," ","f","i","x",","," ","p","l","a","n"," ","s",
      "t","r","a","t","e","g","y"," ","r","o","a","d","m","a","p">>

GuideParagraph ==
    <<"o","p","t","i","m","i","z","e"," ","p","e","r","f","o","r","m","a","n",
      "c","e"," ","b","o","t","t","l","e","n","e","c","k",";"," ","t","h","e",
      " ","u","s","e","r"," ","g","u","i","d","e"," ","a","n","d"," ","m","a",
      "n","u","a","l">>

ShortParagraph ==
    <<" ","N","o","t","e","s","\n">>

\* the paragraphs of one page
MaxParagraphs == 2

ParagraphPool ==
    {OptimizeParagraph, TrendsParagraph, ReferenceParagraph, ManyTasksParagraph,
     GuideParagraph, ShortParagraph}

ParagraphPages ==
    UNION {[1..n -> ParagraphPool] : n \in 1..MaxParagraphs}

InitScore ==
    /\ pc = "paragraphs"
    /\ \E paragraphs \in ParagraphPages : doc = <<paragraphs>>
    /\ doc_open = 0 /\ title = NoValue /\ language = NoValue /\ result = NoValue
    /\ ClusterIdle /\ OutlineIdle /\ CleanIdle
    /\ LanguageIdle /\ ScoreIdle /\ BatchIdle /\ MainIdle /\ LexicalIdle

\* PersonaTaskSectionExtractor._extract_text_with_context (lines 256-285)
TextWithContext ==
    /\ pc = "paragraphs"
    /\ text_data' = ExtractTextWithContext(doc, 1)
    /\ pc' = "text_data"
    /\ UNCHANGED <<extractVars, clusterVars, outlineVars, cleanVars, languageVars,
                   prediction, task_scores, task_sections, sections_given,
                   batchVars, mainVars, lexicalVars>>

\* PersonaTaskSectionExtractor._extract_task_sections (lines 303-340) with
\* its calls of _score_section_for_tasks (lines 342-379); the classifier
\* predicts the same category for every text, or was never fitted
TaskSections ==
    /\ pc = "text_data"
    /\ \E predicted \in Predictions :
          /\ prediction' = [i \in DOMAIN text_data |-> predicted]
          /\ task_scores' = TaskScores(text_data, prediction')
          /\ sections_given' = SectionsOf(text_data, task_scores', 1)
          /\ task_sections' = DeduplicateSections(sections_given')
    /\ pc' = "task_sections"
    /\ UNCHANGED <<extractVars, clusterVars, outlineVars, cleanVars, languageVars,
                   text_data, batchVars, mainVars, lexicalVars>>

NextScore == TextWithContext \/ TaskSections

SpecScore == InitScore /\ [][NextScore]_vars

-----------------------------------------------------------------------------
(* Claims about the relevance scorer.                                      *)

Optimization == TaskIndex("optimization")

Documentation == TaskIndex("documentation")

\* the text of item i contains the words of Scenario E
ScenarioEPassage(i) == Contains(text_data[i].text, OptimizeParagraph)

\* neither the text nor the context of item i has a keyword of the
\* documentation task, and the text matches none of its patterns
DocumentationFree(i) ==
    /\ KeywordMatches("documentation", Lower(text_data[i].text)) = 0
    /\ PatternMatches("documentation", Lower(text_data[i].text)) = 0
    /\ KeywordMatches("documentation", Lower(text_data[i].full_context)) = 0

\* C13 as stated: Scenario E: for any passage containing the words 'optimize
\* performance bottleneck', whatever the classifier predicts, the score of
\* the optimization task is strictly greater than that of documentation.
C13_ScenarioEAnyPassage ==
    pc = "task_sections" =>
        \A i \in DOMAIN text_data :
            ScenarioEPassage(i) =>
                FLess(task_scores[i][Documentation], task_scores[i][Optimization])

\* C13: Scenario E: for a passage containing the words 'optimize performance
\* bottleneck' whose text and context hold no keyword of the documentation
\* task and whose text matches none of its patterns, whatever the classifier
\* predicts, _score_section_for_tasks gives the optimization task a score
\* strictly greater than the documentation task.
C13_ScenarioE ==
    pc = "task_sections" =>
        \A i \in DOMAIN text_data :
            ScenarioEPassage(i) /\ DocumentationFree(i) =>
                FLess(task_scores[i][Documentation], task_scores[i][Optimization])

\* the passage of Scenario E has been scored while the classifier predicts
\* the documentation task
C13_Witness ==
    /\ pc = "task_sections"
    /\ \E i \in DOMAIN text_data :
          /\ ScenarioEPassage(i) /\ DocumentationFree(i)
          /\ prediction[i] = "documentation"
          /\ task_scores[i][Documentation] = PredictionWeight
          /\ FLess(PredictionWeight, task_scores[i][Optimization])

\* the threshold and the cap in thousandths, the unit of the rounded scores
ThresholdMillis == RoundMillis(RelevanceThreshold)

CapMillis == RoundMillis(ScoreCap)

\* some task of item i has a score above the threshold
AboveThreshold(i) ==
    \E n \in DOMAIN TaskNames : FLess(RelevanceThreshold, task_scores[i][n])

\* C20: every section produced by _extract_task_sections lists at least one
\* and at most three relevant tasks, in descending score order, each task
\* score lies in [0,1] and is above the 0.3 threshold; a passage whose score
\* is at or below the threshold for every task is dropped entirely.
C20_SectionsAboveThreshold ==
    pc = "task_sections" =>
        /\ \A s \in DOMAIN task_sections :
              LET section == task_sections[s]
                  scores == section.relevance_scores
              IN  /\ Len(section.relevant_tasks) \in 1..TopTasks
                  /\ DOMAIN scores = DOMAIN section.relevant_tasks
                  /\ \A n \in DOMAIN scores :
                        /\ scores[n] > ThresholdMillis
                        /\ scores[n] <= CapMillis
                        /\ n > 1 => scores[n - 1] >= scores[n]
                  /\ \E i \in DOMAIN text_data :
                        text_data[i].text = section.text /\ AboveThreshold(i)
        /\ Len(task_sections)
               <= Cardinality({i \in DOMAIN text_data : AboveThreshold(i)})

-----------------------------------------------------------------------------
(* The command-line processors (challenge1a parser.py, with the helpers of *)
(* challenge1b utils.py; challenge1b parser.py has the same structure).    *)

\* utils.py line 264: the page limit of validate_competition_constraints
PageLimit == 50

\* what is on disk at a path: whether the file exists, starts with %PDF, is
\* encrypted, lets fitz count its pages, and how many pages it has
MissingFile ==
    [exists |-> FALSE, signature |-> FALSE, encrypted |-> FALSE,
     countable |-> FALSE, pages |-> 0]

ValidPdf ==
    [exists |-> TRUE, signature |-> TRUE, encrypted |-> FALSE,
     countable |-> TRUE, pages |-> 1]

LongPdf == [ValidPdf EXCEPT !.pages = PageLimit + 1]

\* an encrypted file whose page tree can be read without the password
EncryptedPdf == [ValidPdf EXCEPT !.encrypted = TRUE]

\* an encrypted file on which len(doc) raises
LockedPdf == [ValidPdf EXCEPT !.encrypted = TRUE, !.countable = FALSE]

NoSignature == [ValidPdf EXCEPT !.signature = FALSE, !.countable = FALSE]

ListedFiles == {ValidPdf, LongPdf, EncryptedPdf, LockedPdf, NoSignature}

\* the paths of the input directory in sorted order, and their stems
Paths == <<"d1/a.pdf", "d1/b.pdf", "d2/a.pdf">>

Stem == [p \in Range(Paths) |-> IF p = "d1/b.pdf" THEN "b" ELSE "a"]

\* parser.py line 128: Path(output_dir) / f"{pdf_name}_outline.json"
OutlineOutput(pdf_file) == <<Stem[pdf_file], "_outline.json">>

\* utils.py lines 46-58: validate_pdf_file
ValidatePdfFile(file) ==
    file.exists /\ file.signature /\ file.countable /\ file.pages > 0

\* utils.py lines 127-142: find_pdf_files, the valid files in sorted order
FindPdfFiles(directory) ==
    SelectSeq(Paths, LAMBDA p : p \in DOMAIN directory
                                /\ ValidatePdfFile(directory[p]))

\* how save_outline ends: the file is written; mkdir or open raises and
\* nothing is written; json.dump raises after open(path, 'w') truncated the file
SaveOutcomes == {"written", "refused", "truncated"}

\* outline_extractor.py lines 379-393: the files after save_outline
SaveOutline(files, outline_data, output_path, save) ==
    IF save = "refused" THEN files
    ELSE [p \in DOMAIN files \cup {output_path} |->
             IF p # output_path THEN files[p]
             ELSE [data |-> outline_data, complete |-> save = "written"]]

\* parser.py lines 43-85: the result of process_outline; raised tells that an
\* exception was caught by the handler of line 77
OutlineResult(file, input_path, output_path, save, raised) ==
    IF ~raised /\ ~ValidatePdfFile(file)
    THEN [success |-> FALSE, error |-> "Invalid PDF file", execution_time |-> 0]
    ELSE IF raised
    THEN [success |-> FALSE, error |-> "Error processing outline",
          execution_time |-> 0]
    ELSE IF save = "written"
    THEN [success |-> TRUE, input_file |-> input_path,
          output_file |-> output_path, execution_time |-> 0]
    ELSE [success |-> FALSE, input_file |-> input_path,
          output_file |-> output_path, execution_time |-> 0,
          error |-> "Failed to save outline data"]

\* parser.py lines 43-57: the files after process_outline
OutlineFiles(files, file, input_path, output_path, save, raised) ==
    IF raised \/ ~ValidatePdfFile(file) THEN files
    ELSE SaveOutline(files, input_path, output_path, save)

\* parser.py line 262: the exit code of a result
ExitAlwaysZero(success) == 0

ExitCode(success) == IF success THEN 0 ELSE 1

\* the files of a batch run
MaxFiles == 2

Directories ==
    UNION {[S -> ListedFiles] :
              S \in {T \in SUBSET Range(Paths) : Cardinality(T) <= MaxFiles}}

Flags == [quiet : BOOLEAN, json_output : BOOLEAN]

Commands ==
    {[command |-> NoValue]}
    \cup {[command |-> "outline", input |-> "d1/a.pdf", file |-> f,
           output |-> <<"out.json">>, flags |-> g] :
             f \in ListedFiles \cup {MissingFile}, g \in Flags}
    \cup {[command |-> "batch", input_dir |-> d, flags |-> g] :
             d \in Directories, g \in Flags}

InitMain ==
    /\ pc = "main"
    /\ args \in Commands
    /\ exit_code = NoValue
    /\ ExtractIdle /\ ClusterIdle /\ OutlineIdle /\ CleanIdle
    /\ LanguageIdle /\ ScoreIdle /\ BatchIdle /\ LexicalIdle

mainFrame ==
    <<extractVars, clusterVars, outlineVars, cleanVars, languageVars, scoreVars,
      lexicalVars>>

\* parser.py lines 237-242: main without a command prints the help and exits
MainHelp ==
    /\ pc = "main"
    /\ args.command = NoValue
    /\ exit_code' = 1
    /\ pc' = "help"
    /\ UNCHANGED <<mainFrame, batchVars, args>>

\* parser.py lines 244-247: main constructs the processor and enters the try
MainCommand ==
    /\ pc = "main"
    /\ args.command # NoValue
    /\ pc' = "command"
    /\ UNCHANGED <<mainFrame, batchVars, mainVars>>

\* parser.py lines 30-85: process_outline for the outline command
ProcessOutline ==
    /\ pc = "command"
    /\ args.command = "outline"
    /\ \E save \in SaveOutcomes, raised \in BOOLEAN :
          /\ results' = OutlineResult(args.file, args.input, args.output,
                                      save, raised)
          /\ outputs' = OutlineFiles(outputs, args.file, args.input,
                                     args.output, save, raised)
    /\ pc' = "print"
    /\ UNCHANGED <<mainFrame, pdf_files, mainVars>>

\* parser.py lines 97-119: batch_process up to the loop
BatchStart ==
    /\ pc = "command"
    /\ args.command = "batch"
    /\ pdf_files' = FindPdfFiles(args.input_dir)
    /\ IF pdf_files' = <<>>
       THEN /\ results' = [success |-> FALSE, error |-> "No PDF files found",
                           processed_files |-> <<>>]
            /\ pc' = "print"
       ELSE /\ results' = [success |-> TRUE, total_files |-> Len(pdf_files'),
                           successful |-> 0, failed |-> 0,
                           processed_files |-> <<>>, total_time |-> 0]
            /\ pc' = "batch"
    /\ UNCHANGED <<mainFrame, outputs, mainVars>>

\* a return that leaves the success flag as it was set before the loop
BatchReturnUnset(batch) == batch

\* parser.py lines 154-157: the end of batch_process after the last file
BatchReturn(batch) ==
    IF Len(batch.processed_files) < Len(pdf_files) THEN batch
    ELSE [batch EXCEPT !.success = (batch.failed = 0)]

\* parser.py lines 123-152: one iteration of the loop of batch_process;
\* escaped tells that an exception left process_outline
BatchFile ==
    /\ pc = "batch"
    /\ Len(results.processed_files) < Len(pdf_files)
    /\ LET pdf_file == pdf_files[Len(results.processed_files) + 1]
           file == args.input_dir[pdf_file]
       IN  \E save \in SaveOutcomes, raised \in BOOLEAN, escaped \in BOOLEAN :
              LET outline_result ==
                      OutlineResult(file, pdf_file, OutlineOutput(pdf_file),
                                    save, raised)
                  entry ==
                      IF escaped
                      THEN [file |-> pdf_file, status |-> "error"]
                      ELSE [file |-> pdf_file,
                            status |-> IF outline_result.success
                                       THEN "success" ELSE "failed",
                            outline_result |-> outline_result]
                  counted ==
                      IF ~escaped /\ outline_result.success
                      THEN [results EXCEPT !.successful = @ + 1]
                      ELSE [results EXCEPT !.failed = @ + 1]
              IN  /\ escaped => raised
                  /\ results' =
                         BatchReturn([counted EXCEPT !.processed_files =
                                                         Append(@, entry)])
                  /\ outputs' =
                         OutlineFiles(outputs, file, pdf_file,
                                      OutlineOutput(pdf_file), save, raised)
    /\ pc' = IF Len(results'.processed_files) < Len(pdf_files)
             THEN "batch" ELSE "print"
    /\ UNCHANGED <<mainFrame, pdf_files, mainVars>>

\* parser.py lines 201-232: print_results raises a KeyError for the result
\* of a batch without files
PrintRaisesKeyError ==
    /\ ~args.flags.json_output
    /\ ~(args.flags.quiet /\ results.success)
    /\ "processed_files" \in DOMAIN results
    /\ "total_time" \notin DOMAIN results

\* parser.py lines 258-267: print_results and the exit of main; printed tells
\* whether the output could be written
PrintResults ==
    /\ pc = "print"
    /\ \E printed \in BOOLEAN :
          IF PrintRaisesKeyError \/ ~printed
          THEN exit_code' = 1 /\ pc' = "raised"
          ELSE exit_code' = ExitCode(results.success) /\ pc' = "exited"
    /\ UNCHANGED <<mainFrame, batchVars, args>>

\* parser.py lines 264-266: a KeyboardInterrupt inside the try of main
Interrupt ==
    /\ pc \in {"command", "batch", "print"}
    /\ exit_code' = 130
    /\ pc' = "interrupted"
    /\ UNCHANGED <<mainFrame, batchVars, args>>

NextMain ==
    \/ MainHelp
    \/ MainCommand
    \/ ProcessOutline
    \/ BatchStart
    \/ BatchFile
    \/ PrintResults
    \/ Interrupt

SpecMain == InitMain /\ [][NextMain]_vars

-----------------------------------------------------------------------------
(* Claims about the command-line processors.                               *)

\* batch_process has returned the result of a batch with files
BatchReturned == pc = "print" /\ args.command = "batch" /\ pdf_files # <<>>

\* C14: for batch_process over a non-empty list of found PDFs, every file is
\* processed exactly once in list order even when earlier files fail or
\* raise; on return processed_files has one entry per file, successful +
\* failed = total_files, and the success flag is true iff failed = 0.
C14_BatchCounts ==
    /\ pc = "batch" =>
          /\ Len(results.processed_files) < Len(pdf_files)
          /\ \A i \in DOMAIN results.processed_files :
                results.processed_files[i].file = pdf_files[i]
    /\ BatchReturned =>
          /\ Len(results.processed_files) = Len(pdf_files)
          /\ \A i \in DOMAIN pdf_files :
                results.processed_files[i].file = pdf_files[i]
          /\ results.total_files = Len(pdf_files)
          /\ results.successful + results.failed = results.total_files
          /\ results.successful =
                Cardinality({i \in DOMAIN pdf_files :
                                results.processed_files[i].status = "success"})
          /\ results.success <=> results.failed = 0

\* a batch of two files has returned whose first file raised and whose
\* second file was processed with success
C14_Witness ==
    /\ BatchReturned
    /\ Len(pdf_files) = 2
    /\ results.processed_files[1].status = "error"
    /\ results.processed_files[2].status = "success"
    /\ results.failed = 1 /\ results.successful = 1
    /\ ~results.success

\* the input errors of the specification: the file is missing, lacks the
\* PDF signature, is encrypted or has more pages than the limit
InputError(file) ==
    \/ ~file.exists
    \/ ~file.signature
    \/ file.encrypted
    \/ file.pages > PageLimit

\* C15: when the input file is missing, lacks a valid PDF signature, is
\* encrypted, or has more pages than the configured limit, process_outline
\* returns success=False with an error and no output file is produced.
C15_InputRejected ==
    pc = "print" /\ args.command = "outline" /\ InputError(args.file) =>
        /\ ~results.success
        /\ "error" \in DOMAIN results
        /\ DOMAIN outputs = {}

\* the last file of the batch passed validation and its output was not saved
SaveFailed(batch) ==
    LET entry == batch.processed_files[Len(batch.processed_files)]
    IN  /\ entry.status = "failed"
        /\ "output_file" \in DOMAIN entry.outline_result

\* C16: when writing the output fails, save_outline returns False without
\* raising, process_outline returns success=False with an error reason, and
\* the outputs already written for earlier files of the same batch run are
\* left unchanged.
C16_EarlierOutputsKept ==
    [][pc = "batch" /\ pc' \in {"batch", "print"} /\ SaveFailed(results') =>
          /\ "error" \in
                DOMAIN results'.processed_files[
                           Len(results'.processed_files)].outline_result
          /\ \A p \in DOMAIN outputs :
                p \in DOMAIN outputs' /\ outputs'[p] = outputs[p]]_vars

\* C29: in one batch_process run distinct input files are written to
\* distinct output paths, so after the run the output file of every file
\* reported successful holds that file's own result and was not overwritten
\* by a later file of the batch.
C29_OwnOutputPerFile ==
    BatchReturned =>
        /\ \A i, j \in DOMAIN pdf_files :
              i # j => OutlineOutput(pdf_files[i]) # OutlineOutput(pdf_files[j])
        /\ \A i \in DOMAIN pdf_files :
              results.processed_files[i].status = "success" =>
                  /\ OutlineOutput(pdf_files[i]) \in DOMAIN outputs
                  /\ outputs[OutlineOutput(pdf_files[i])] =
                         [data |-> pdf_files[i], complete |-> TRUE]

\* C18: main exits with code 0 exactly when the result of the executed
\* command reports success, with 1 when no command is given, the result
\* reports a failure or an unexpected exception is caught, and with 130 when
\* a user interrupt arrives during processing.
C18_ExitCodes ==
    /\ pc = "help" => exit_code = 1
    /\ pc = "raised" => exit_code = 1
    /\ pc = "interrupted" => exit_code = 130
    /\ pc = "exited" => /\ results.success => exit_code = 0
                        /\ ~results.success => exit_code = 1
    /\ pc \notin {"help", "raised", "interrupted", "exited"} =>
          exit_code = NoValue

\* main has exited with code 0 after a batch of two files
C18_Witness ==
    /\ pc = "exited"
    /\ args.command = "batch"
    /\ Len(pdf_files) = 2
    /\ results.success
    /\ exit_code = 0

-----------------------------------------------------------------------------
(* Claims about a failure of the text extraction.                          *)

\* the first page of the document that cannot be read
FailingPage(d) == Min({p \in DOMAIN d.pages : ~d.pages[p].readable})

\* the fragments of the pages before the failing page
FragmentsBefore(d) == BlocksOfPages(SubSeq(d.pages, 1, FailingPage(d) - 1), 1)

\* extract_outline failed in _extract_text_blocks on a page after the first
FailedAfterPages ==
    /\ pc = "failed"
    /\ doc.exists
    /\ ~ExtractTitleRaises(doc)
    /\ ExtractTextBlocksRaises(doc)
    /\ FailingPage(doc) > 1

\* C17: when text extraction fails on some page after earlier pages were
\* extracted, processing continues with the partial data, so the fragments
\* of the pages before the failure still contribute to the returned outline:
\* where those fragments are the lines of the report page, which alone give
\* an outline in every run, the returned outline is not empty.
C17_PartialDataKept ==
    FailedAfterPages
    /\ FragmentsBefore(doc) = BlocksOfPages(<<LinePage(ReportLines)>>, 1) =>
        result.outline # <<>>

-----------------------------------------------------------------------------
(* One extractor on a sequence of documents.                               *)

\* the documents one extractor processes
MaxDocuments == 2

\* line 42: self.scaler = StandardScaler(), fitted on nothing yet
Unfitted ==
    [n |-> 0, sum |-> [d \in 1..4 |-> 0], sumsq |-> [d \in 1..4 |-> 0]]

\* the text blocks of the documents: two that are clustered and one with too
\* few blocks
SequenceDocs ==
    {ScenarioADoc, FourSizesDoc, SubSeq(FourSizesDoc, 1, MinBlocks - 1)}

InitSequence ==
    /\ pc = "identify"
    /\ text_blocks \in SequenceDocs
    /\ doc \in UNION {[1..n -> SequenceDocs] : n \in 1..(MaxDocuments - 1)}
    /\ language = "english"
    /\ labels = <<>> /\ scaler = Unfitted /\ kmeans_fits = {} /\ rng_state = 0
    /\ first_run = NoValue
    /\ doc_open = 0 /\ title = NoValue /\ result = NoValue
    /\ OutlineIdle /\ CleanIdle /\ RestIdle

\* lines 101-108: extract_outline on the first document
IdentifyFirst ==
    /\ pc = "identify"
    /\ Identify(scaler, "returned", "raised")
    /\ UNCHANGED <<text_blocks, language, first_run, outline, outline_y,
                   candidates_given, doc, doc_open, title, result, cleanVars, restVars>>

\* lines 101-102: the text blocks of the next document; first_run keeps the
\* blocks of the document before it
NextDocument ==
    /\ pc \in {"returned", "raised", "returned_next", "raised_next"}
    /\ doc # <<>>
    /\ text_blocks' = Head(doc)
    /\ doc' = Tail(doc)
    /\ first_run' = [previous |-> text_blocks]
    /\ pc' = "identify_next"
    /\ UNCHANGED <<labels, scaler, kmeans_fits, rng_state, language, doc_open, title,
                   result, outlineVars, cleanVars, restVars>>

\* line 108 on the extractor that processed the documents before
IdentifyReused ==
    /\ pc = "identify_next"
    /\ Identify(scaler, "returned_next", "raised_next")
    /\ UNCHANGED <<text_blocks, language, first_run, outline, outline_y,
                   candidates_given, doc, doc_open, title, result, cleanVars, restVars>>

\* line 108 for the same document on a new extractor; first_run keeps what
\* the reused extractor returned
IdentifyFresh ==
    /\ pc \in {"returned_next", "raised_next"}
    /\ first_run' = [previous |-> first_run.previous,
                     raised |-> pc = "raised_next",
                     candidates |-> heading_candidates]
    /\ Identify(Unfitted, "returned_fresh", "raised_fresh")
    /\ UNCHANGED <<text_blocks, language, outline, outline_y,
                   candidates_given, doc, doc_open, title, result, cleanVars, restVars>>

NextSequence == IdentifyFirst \/ NextDocument \/ IdentifyReused \/ IdentifyFresh

SpecSequence == InitSequence /\ [][NextSequence]_vars

-----------------------------------------------------------------------------
(* Claims about a sequence of documents.                                   *)

\* C19: no cross-document state: for a document processed by an extractor
\* after other documents, the candidates and levels, and so the outline built
\* from them, are those a new extractor returns for that document alone; the
\* reused scaler and the earlier fragments do not influence them.
C19_NoCrossDocumentState ==
    /\ pc = "returned_fresh" =>
          /\ ~first_run.raised
          /\ heading_candidates = first_run.candidates
    /\ pc = "raised_fresh" => first_run.raised

\* a clustered document was processed after another clustered document, and
\* again on a new extractor
C19_Witness ==
    /\ pc = "returned_fresh"
    /\ Len(first_run.previous) >= MinBlocks
    /\ first_run.previous # text_blocks
    /\ Len(text_blocks) >= MinBlocks
    /\ Len(heading_candidates) >= 2
    /\ heading_candidates = first_run.candidates

-----------------------------------------------------------------------------
(* _deduplicate_sections on lists of sections                              *)
(* (persona_extractor.py lines 399-420).                                   *)

DigitChars == <<"0","1","2","3","4","5","6","7","8","9">>

\* 'optimize performance NN': texts of which no two are very similar
NumberedText(n) ==
    SubSeq(OptimizeParagraph, 1, 21)
        \o <<DigitChars[(n \div 10) + 1], DigitChars[(n % 10) + 1]>>

IndexText ==
    <<"o","p","t","i","m","i","z","e"," ","q","u","e","r","y"," ","c","a",
      "c","h","e"," ","i","n","d","e","x"," ","s","p","e","e","d">>

\* IndexText and one more word: 5 words of 6 in common
IndexNowText == IndexText \o <<" ","n","o","w">>

IndexCapsText ==
    <<"O","p","t","i","m","i","z","e"," ","Q","u","e","r","y"," ","C","a",
      "c","h","e"," ","I","n","d","e","x"," ","S","p","e","e","d">>

\* ten words, eleven words (ten in common with the first) and eleven words
\* (ten in common with the second, nine with the first)
ChainFirstText ==
    <<"m","a","p"," ","k","e","y"," ","s","e","t"," ","r","o","w"," ","c",
      "o","l"," ","s","u","m"," ","m","i","n"," ","m","a","x"," ","a","v",
      "g"," ","t","o","p">>

ChainSecondText == ChainFirstText \o <<" ","l","o","w">>

ChainThirdText == SubSeq(ChainSecondText, 5, Len(ChainSecondText)) \o <<" ","e","n","d">>

\* a first word of 100 characters and the ten words of ChainFirstText
LongText(c) == [i \in 1..KeyLen |-> c] \o <<" ">> \o ChainFirstText

\* a section as line 326 makes it, with the given text and rounded scores
SectionWith(t, scores) ==
    [text |-> t,
     page |-> 1,
     relevant_tasks |-> [n \in DOMAIN scores |-> TaskNames[n]],
     relevance_scores |-> scores,
     section_type |-> ClassifySectionType(t),
     length |-> Len(t),
     context_available |-> FALSE]

\* the longest list of sections with different texts
MaxSectionCount == 22

\* the length of a list of sections with similar texts
MaxSimilar == 2

\* n sections of different texts, their scores rising, falling or equal
NumberedSections(n, step) ==
    [i \in 1..n |-> SectionWith(NumberedText(i), <<500 + step * (i % 4)>>)]

SimilarPool ==
    {SectionWith(t, scores) :
        t \in {IndexText, IndexNowText, IndexCapsText, LongText("x"), LongText("y")},
        scores \in {<<400>>, <<500, 450>>}}

SectionLists ==
    {NumberedSections(n, step) : n \in 0..MaxSectionCount, step \in {-10, 0, 10}}
    \cup UNION {[1..n -> SimilarPool] : n \in 1..MaxSimilar}
    \cup {NumberedSections(n, step)
              \o <<SectionWith(IndexText, <<400>>), SectionWith(IndexNowText, <<score>>)>> :
             n \in {MaxSections - 2, MaxSections - 1, MaxSections},
             step \in {-10, 0}, score \in {400, 600}}
    \cup {<<SectionWith(ChainThirdText, <<third>>), SectionWith(ChainSecondText, <<second>>),
            SectionWith(ChainFirstText, <<first>>)>> :
             first \in {400, 500}, second \in {400, 450}, third \in {400, 500}}

InitSections ==
    /\ pc = "sections"
    /\ sections_given \in SectionLists
    /\ text_data = <<>> /\ prediction = <<>> /\ task_scores = <<>>
    /\ task_sections = <<>>
    /\ ExtractIdle /\ ClusterIdle /\ OutlineIdle /\ CleanIdle
    /\ LanguageIdle /\ BatchIdle /\ MainIdle /\ LexicalIdle

\* PersonaTaskSectionExtractor._deduplicate_sections (lines 399-420)
DeduplicateSectionsCall ==
    /\ pc = "sections"
    /\ task_sections' = DeduplicateSections(sections_given)
    /\ pc' = "deduplicated"
    /\ UNCHANGED <<extractVars, clusterVars, outlineVars, cleanVars, languageVars,
                   text_data, prediction, task_scores, sections_given,
                   batchVars, mainVars, lexicalVars>>

NextSections == DeduplicateSectionsCall

SpecSections == InitSections /\ [][NextSections]_vars

-----------------------------------------------------------------------------
(* Claims about _deduplicate_sections.                                     *)

TopScore(section) == Max(Range(section.relevance_scores))

SectionKey(section) == Strip(Lower(Take(section.text, KeyLen)))

AtMostMaxSections == Len(task_sections) <= MaxSections

ByTopScore ==
    \A i, j \in DOMAIN task_sections :
        i < j => TopScore(task_sections[i]) >= TopScore(task_sections[j])

\* a section that was not returned is a duplicate of a returned one that
\* scores at least as high, or follows 20 returned ones that all do
HighestKept ==
    \A i \in DOMAIN sections_given :
        \/ \E j \in DOMAIN task_sections : task_sections[j] = sections_given[i]
        \/ \E j \in DOMAIN task_sections :
              /\ TopScore(task_sections[j]) >= TopScore(sections_given[i])
              /\ VerySimilar(SectionKey(task_sections[j]), SectionKey(sections_given[i]))
        \/ /\ Len(task_sections) = MaxSections
           /\ \A j \in DOMAIN task_sections :
                 TopScore(task_sections[j]) >= TopScore(sections_given[i])

SimilarTexts(s, t) == VerySimilar(s.text, t.text)

SimilarKeys(s, t) == VerySimilar(SectionKey(s), SectionKey(t))

Returned(section) == \E j \in DOMAIN task_sections : task_sections[j] = section

\* of two given sections with similar texts of which one only is returned,
\* the returned one scores at least as high
HighestOfSimilarTexts ==
    \A i, j \in DOMAIN sections_given :
        /\ Returned(sections_given[i])
        /\ ~Returned(sections_given[j])
        /\ SimilarTexts(sections_given[i], sections_given[j])
        => TopScore(sections_given[i]) >= TopScore(sections_given[j])

\* C21 as stated: the list returned by _deduplicate_sections has at most 20
\* sections, is ordered by non-increasing top relevance score, holds no two
\* sections whose texts have a word-set Jaccard similarity above 0.8, and of
\* near-duplicates the one with the highest top score is the one kept.
C21_NoTwoSimilarTexts ==
    pc = "deduplicated" =>
        /\ AtMostMaxSections
        /\ ByTopScore
        /\ \A i, j \in DOMAIN task_sections :
              i < j => ~SimilarTexts(task_sections[i], task_sections[j])
        /\ HighestOfSimilarTexts

\* C21, amended: the list returned by _deduplicate_sections has at most 20
\* sections, is ordered by non-increasing top relevance score, and holds no
\* two sections whose keys (the first 100 characters of the text, lower-cased
\* and stripped) have a word-set Jaccard similarity above 0.8; a section that
\* is not returned has a key that similar to the key of a returned section
\* whose top score is at least as high, or follows 20 returned sections.
C21_NoTwoSimilarKeys ==
    pc = "deduplicated" =>
        /\ AtMostMaxSections
        /\ ByTopScore
        /\ \A i, j \in DOMAIN task_sections :
              i < j => ~SimilarKeys(task_sections[i], task_sections[j])
        /\ HighestKept

\* more than 21 sections were given, the last of them has the highest score
\* and comes first in the result, and an earlier one with a similar key and
\* a lower score was not returned
C21_Witness ==
    /\ pc = "deduplicated"
    /\ Len(sections_given) > MaxSections + 1
    /\ Len(task_sections) = MaxSections
    /\ task_sections[1] = sections_given[Len(sections_given)]
    /\ \E i \in DOMAIN sections_given :
          /\ SimilarKeys(task_sections[1], sections_given[i])
          /\ TopScore(task_sections[1]) > TopScore(sections_given[i])
          /\ \A j \in DOMAIN task_sections : task_sections[j] # sections_given[i]

-----------------------------------------------------------------------------
(* Claims about the levels and the texts of the candidates.                *)

LevelIndex(level) == CHOOSE n \in DOMAIN HEADING_LEVELS : HEADING_LEVELS[n] = level

\* the clusters whose mean font size is larger than that of the cluster of
\* block i, and those, its own among them, whose mean is not smaller
ClustersAbove(i) ==
    {c \in Range(labels) : ~MeanAtLeast(i, FirstIndex(labels, c))}

ClustersNotBelow(i) ==
    {c \in Range(labels) : MeanAtLeast(FirstIndex(labels, c), i)}

IsCandidate(i) == \E c \in Range(heading_candidates) : c.y = text_blocks[i].y

\* C22: the clusters are ranked by descending mean font size, those ranked
\* first, second and third give the levels H1, H2 and H3, every candidate has
\* the level of its own cluster, and no block of a cluster ranked fourth or
\* lower is a candidate.
C22_LevelsByClusterRank ==
    (pc = "returned" /\ labels # <<>>) =>
        /\ \A c \in Range(heading_candidates) :
              LET i == BlockOf(c)
                  n == LevelIndex(c.level)
              IN  /\ c.level \in Range(HEADING_LEVELS)
                  /\ Cardinality(ClustersAbove(i)) < n
                  /\ n <= Cardinality(ClustersNotBelow(i))
        /\ \A a, b \in Range(heading_candidates) :
              a.level = b.level <=> labels[BlockOf(a)] = labels[BlockOf(b)]
        /\ \A c \in Range(labels) :
              Cardinality(ClustersAbove(FirstIndex(labels, c))) >= Len(HEADING_LEVELS)
                  => \A i \in DOMAIN labels : labels[i] = c => ~IsCandidate(i)

\* four clusters of four different means, candidates at the three levels, and
\* a block of the fourth cluster whose text would pass the filter
C22_Witness ==
    /\ pc = "returned"
    /\ Cardinality(Range(labels)) = 4
    /\ {c.level : c \in Range(heading_candidates)} = Range(HEADING_LEVELS)
    /\ \E i \in DOMAIN text_blocks :
          /\ Cardinality(ClustersAbove(i)) = 3
          /\ ~FilteredOut(text_blocks[i].text)
          /\ ~IsCandidate(i)

\* the space-separated words of a text: its runs of characters other than
\* the space
SpaceSeparatedWords(t) ==
    Cardinality({i \in DOMAIN t : t[i] # " " /\ (i = 1 \/ t[i - 1] = " ")})

\* the cluster of block i is one of the three of largest mean font size
InTopClusters(i) == Cardinality(ClustersNotBelow(i)) <= Len(HEADING_LEVELS)

\* C23 as stated: every candidate has a text of 4 to 150 characters and of at
\* most 20 space-separated words, and a block of a top-3 cluster whose text
\* has more than 20 space-separated words is discarded.
C23_AtMostTwentyWords ==
    (pc = "returned" /\ labels # <<>>) =>
        /\ \A c \in Range(heading_candidates) :
              /\ Len(c.text) >= MinHeadingLen
              /\ Len(c.text) <= MaxHeadingLen
              /\ SpaceSeparatedWords(c.text) <= MaxHeadingSpaces
        /\ \A i \in DOMAIN text_blocks :
              (InTopClusters(i) /\ SpaceSeparatedWords(text_blocks[i].text) > MaxHeadingSpaces)
                  => ~IsCandidate(i)

\* C23, amended: every candidate has a text of 4 to 150 characters that holds
\* at most 20 spaces (21 space-separated words at most), a block whose text
\* holds more than 20 spaces is discarded, and a block of a top-3 cluster
\* whose text is within these limits is a candidate.
C23_AtMostTwentySpaces ==
    (pc = "returned" /\ labels # <<>>) =>
        /\ \A c \in Range(heading_candidates) :
              /\ Len(c.text) >= MinHeadingLen
              /\ Len(c.text) <= MaxHeadingLen
              /\ Count(c.text, " ") <= MaxHeadingSpaces
        /\ \A i \in DOMAIN text_blocks :
              LET t == text_blocks[i].text
              IN  /\ Count(t, " ") > MaxHeadingSpaces => ~IsCandidate(i)
                  /\ (/\ InTopClusters(i)
                      /\ Len(t) >= MinHeadingLen
                      /\ Len(t) <= MaxHeadingLen
                      /\ Count(t, " ") <= MaxHeadingSpaces) => IsCandidate(i)

\* the blocks of 21 words, of 4 and of 150 characters are candidates, those
\* of 22 words, of 3 and of 151 characters are not
C23_Witness ==
    /\ pc = "returned"
    /\ text_blocks = FilterDoc
    /\ \A i \in 1..6 : InTopClusters(i)
    /\ {i \in 1..6 : IsCandidate(i)} = {1, 4, 5}
    /\ SpaceSeparatedWords(text_blocks[1].text) = MaxHeadingSpaces + 1
    /\ Count(text_blocks[2].text, " ") = MaxHeadingSpaces + 1

\* the font sizes and the feature vectors present in the blocks
FontSizes == {text_blocks[i].font_size : i \in DOMAIN text_blocks}

FeatureVectors == Range(Features(text_blocks))

\* C24 as stated: for ten blocks or more the cluster count k handed to KMeans
\* is the number of distinct font sizes clamped to [3, 8], at least 3, at most
\* 8, and never more than the distinct font sizes or the distinct feature
\* vectors present.
C24_ClusterCountWithinDiversity ==
    (pc \in {"returned", "raised"} /\ Len(text_blocks) >= MinBlocks) =>
        \A f \in kmeans_fits :
            /\ f.k = (IF Cardinality(FontSizes) < MinClusters THEN MinClusters
                      ELSE IF Cardinality(FontSizes) > MaxClusters THEN MaxClusters
                      ELSE Cardinality(FontSizes))
            /\ f.k >= MinClusters
            /\ f.k <= MaxClusters
            /\ f.k <= Cardinality(FontSizes)
            /\ f.k <= Cardinality(FeatureVectors)
            /\ f.k <= Cardinality(Range(f.X))

-----------------------------------------------------------------------------
(* _extract_text_blocks on documents of one or two pages.                  *)

Times == <<"T","i","m","e","s">>

Courier == <<"C","o","u","r","i","e","r">>

\* the spans of the lines: a plain one, two of the largest size, a blank one
\* larger than any, one without a size, one without a box, one with a text
\* only
TitleSpan == [text |-> <<"T","i","t","l","e">>, size |-> 12, font |-> Helvetica, flags |-> 0, bbox |-> <<72, 50, 272, 62>>]

BigSpan == [text |-> <<"B","i","g">>, size |-> 20, font |-> Times, flags |-> 16, bbox |-> <<300, 40, 400, 60>>]

BoldSpan == [text |-> <<"B","o","l","d">>, size |-> 20, font |-> Courier, flags |-> 2, bbox |-> <<10, 45, 60, 65>>]

BlankSpan == [text |-> <<" ">>, size |-> 30, font |-> Courier, flags |-> 4, bbox |-> <<0, 0, 500, 90>>]

NoSizeSpan == [text |-> <<"s","u","b">>, font |-> Times, flags |-> 6, bbox |-> <<80, 55, 90, 61>>]

NoBoxSpan == [text |-> <<"n","o","t","e">>, size |-> 9, font |-> Helvetica, flags |-> 0]

TextOnlySpan == [text |-> <<"x">>]

SpanPool ==
    {TitleSpan, BigSpan, BoldSpan, BlankSpan, NoSizeSpan, NoBoxSpan, TextOnlySpan}

\* the spans of a line
MaxSpans == 2

\* a line whose first span is blank and the largest, whose second has no
\* size, whose third is of size 12 and whose last has no box
MixedSpans == <<BlankSpan, NoSizeSpan, TitleSpan, NoBoxSpan>>

SpanLines ==
    {[spans |-> spans] : spans \in UNION {[1..n -> SpanPool] : n \in 1..MaxSpans}}
        \cup {[spans |-> MixedSpans]}

\* the texts of one-span lines at the limits of the rules of lines 212-219
RuleTexts ==
    { <<"a","b">>, <<"a","b","c">>, <<" ","a","b"," ">>, LettersText(MaxLineLen),
      LettersText(MaxLineLen + 1), <<"1","2","3">>, <<"1","2","a">>,
      <<"P","a","g","e">>, <<"C","O","N","T","E","N","T","S">>, <<"i","n","d","e","x">>, <<"I","n","d","e","x","e","s">>, ChapterText }

RuleLines ==
    {[spans |-> <<Span(t, 11, 72, 100)>>] : t \in RuleTexts}
    \cup {[spans |-> <<Span(<<"1","2">>, 11, 72, 100), Span(<<"3","4">>, 11, 90, 100)>>],
          [spans |-> <<Span(<<"a">>, 11, 72, 100), Span(<<"b">>, 11, 90, 100)>>],
          [dir |-> <<1, 0>>]}

\* a page whose one text block has the lines
PageOf(lines) == [readable |-> TRUE, blocks |-> <<[type |-> 1], [type |-> 0, lines |-> lines]>>]

\* the lines of a page and the pages of a document
MaxLines == 2

MaxPages == 2

NormalizerPageLists ==
    {<<PageOf(<<line>>)>> : line \in SpanLines}
    \cup {<<PageOf(lines)>> : lines \in UNION {[1..n -> RuleLines] : n \in 0..MaxLines}}
    \cup UNION {[1..n -> {PageOf(<<line>>) : line \in RuleLines} \cup {ImagePage}] :
                   n \in 2..MaxPages}

InitBlocks ==
    /\ pc = "pages"
    /\ \E pages \in NormalizerPageLists :
          doc = [exists |-> TRUE, metadata |-> [format |-> <<"P","D","F">>], pages |-> pages]
    /\ doc_open = 1 /\ title = NoValue /\ language = NoValue /\ result = NoValue
    /\ ClusterIdle /\ OutlineIdle /\ CleanIdle /\ RestIdle

\* OutlineExtractor._extract_text_blocks (lines 162-240)
ExtractTextBlocksCall ==
    /\ pc = "pages"
    /\ text_blocks' = ExtractTextBlocks(doc)
    /\ pc' = "text_blocks"
    /\ UNCHANGED <<extractVars, labels, scaler, kmeans_fits, rng_state, first_run,
                   outlineVars, cleanVars, restVars>>

NextBlocks == ExtractTextBlocksCall

SpecBlocks == InitBlocks /\ [][NextBlocks]_vars

-----------------------------------------------------------------------------
(* Claims about _extract_text_blocks.                                      *)

\* the spans of a line whose text is not blank
HasText(span) == Strip(Get(span, "text", <<>>)) # <<>>

TextSpans(line) == SelectSeq(Get(line, "spans", <<>>), HasText)

\* the stripped texts of the spans, one space between each two
RECURSIVE JoinSpans(_)
JoinSpans(spans) ==
    IF spans = <<>> THEN <<>>
    ELSE Strip(spans[1].text)
         \o (IF Len(spans) > 1 THEN <<" ">> ELSE <<>>) \o JoinSpans(Tail(spans))

LineText(line) == JoinSpans(TextSpans(line))

\* the four rules
PassesRules(t) ==
    /\ Len(t) >= 3
    /\ Len(t) <= 300
    /\ ~(t # <<>> /\ \A i \in DOMAIN t : t[i] \in Digits)
    /\ Lower(t) \notin Stoplist

\* the lines of the pages from page_num on, each with its page number
RECURSIVE LinesFrom(_, _)
LinesFrom(pages, page_num) ==
    IF page_num > Len(pages) THEN <<>>
    ELSE LET lines == LinesOf(pages[page_num].blocks)
         IN  [i \in DOMAIN lines |-> [page |-> page_num, line |-> lines[i]]]
             \o LinesFrom(pages, page_num + 1)

PassingLine(l) == PassesRules(LineText(l.line))

\* the lines of the document that pass the rules, in page and line order
PassingLines == SelectSeq(LinesFrom(doc.pages, 1), PassingLine)

\* C25: every text block emitted by _extract_text_blocks has a trimmed text
\* of 3 to 300 characters that is not a digit string and, lower-cased, not a
\* word of the stoplist; and every line that passes the four rules is
\* emitted, once, in page and line order, with a page number of 1 or more.
C25_KeptLines ==
    pc = "text_blocks" =>
        /\ \A n \in DOMAIN text_blocks :
              /\ text_blocks[n].text = Strip(text_blocks[n].text)
              /\ PassesRules(text_blocks[n].text)
              /\ text_blocks[n].page >= 1
        /\ Len(text_blocks) = Len(PassingLines)
        /\ \A n \in DOMAIN text_blocks :
              /\ text_blocks[n].text = LineText(PassingLines[n].line)
              /\ text_blocks[n].page = PassingLines[n].page

\* two pages: a line of 300 characters on the first is emitted, the second
\* page gives a block with page number 2
C25_Witness ==
    /\ pc = "text_blocks"
    /\ Len(doc.pages) = 2
    /\ Len(LinesFrom(doc.pages, 1)) = 2
    /\ Len(text_blocks) = 2
    /\ Len(text_blocks[1].text) = 300
    /\ text_blocks[2].page = 2

SizeOf(span) == Get(span, "size", 12)

BoxOf(span) == Get(span, "bbox", <<0, 0, 0, 0>>)

\* the first of the spans of the largest size
Dominant(spans) ==
    spans[CHOOSE k \in DOMAIN spans :
            /\ \A j \in DOMAIN spans : SizeOf(spans[j]) <= SizeOf(spans[k])
            /\ \A j \in 1..(k - 1) : SizeOf(spans[j]) < SizeOf(spans[k])]

\* the union of the boxes of the spans
BoxUnion(spans) ==
    << Min({BoxOf(spans[j])[1] : j \in DOMAIN spans}),
       Min({BoxOf(spans[j])[2] : j \in DOMAIN spans}),
       Max({BoxOf(spans[j])[3] : j \in DOMAIN spans}),
       Max({BoxOf(spans[j])[4] : j \in DOMAIN spans}) >>

\* block n has the font of the dominant one of the spans and their box
DescriptorFrom(n, spans) ==
    /\ text_blocks[n].font_size = SizeOf(Dominant(spans))
    /\ text_blocks[n].font_name = Get(Dominant(spans), "font", <<>>)
    /\ text_blocks[n].font_flags = Get(Dominant(spans), "flags", 0)
    /\ text_blocks[n].bbox = BoxUnion(spans)
    /\ (\A j \in DOMAIN spans : "bbox" \notin DOMAIN spans[j])
          => text_blocks[n].bbox = <<0, 0, 0, 0>>
    /\ text_blocks[n].font_size > 0

-----------------------------------------------------------------------------
(* The lexical heading scorer: PDFOutlineExtractor.classify_heading_level  *)
(* (challenge1a_solution.py lines 88-149) and its patterns (lines 17-38).  *)

\* Python's None
None == "None"

\* the patterns as the strings of lines 19-37
\* r'^(Chapter|CHAPTER)\s+\d+[:\-\s]*(.+)'
ChapterPatternSource ==
    <<"^","(","C","h","a","p","t","e","r","|","C","H","A","P","T","E","R",
      ")","\\","s","+","\\","d","+","[",":","\\","-","\\","s","]","*","(",
      ".","+",")">>

\* r'^(\d+\.)\s*([A-Z][A-Za-z\s]+)'
DepthOnePatternSource ==
    <<"^","(","\\","d","+","\\",".",")","\\","s","*","(","[","A","-","Z",
      "]","[","A","-","Z","a","-","z","\\","s","]","+",")">>

\* r'^(\d+\.\d+)\s*([A-Z][A-Za-z\s]+)'
DepthTwoPatternSource ==
    <<"^","(","\\","d","+","\\",".","\\","d","+",")","\\","s","*","(","[",
      "A","-","Z","]","[","A","-","Z","a","-","z","\\","s","]","+",")">>

\* r'^(\d+\.\d+\.\d+)\s*([A-Z][A-Za-z\s]+)'
DepthThreePatternSource ==
    <<"^","(","\\","d","+","\\",".","\\","d","+","\\",".","\\","d","+",")",
      "\\","s","*","(","[","A","-","Z","]","[","A","-","Z","a","-","z","\\",
      "s","]","+",")">>

\* r'^([IVX]+\.)\s*([A-Z][A-Za-z\s]+)'
RomanPatternSource ==
    <<"^","(","[","I","V","X","]","+","\\",".",")","\\","s","*","(","[","A",
      "-","Z","]","[","A","-","Z","a","-","z","\\","s","]","+",")">>

\* r'^([A-Z]\.)\s*([A-Z][A-Za-z\s]+)'
LetterPatternSource ==
    <<"^","(","[","A","-","Z","]","\\",".",")","\\","s","*","(","[","A","-",
      "Z","]","[","A","-","Z","a","-","z","\\","s","]","+",")">>

\* r'^([A-Z][A-Z\s]{3,})'
CapsPatternSource ==
    <<"^","(","[","A","-","Z","]","[","A","-","Z","\\","s","]","{","3",",",
      "}",")">>

\* r'^(Introduction|INTRODUCTION|Conclusion|CONCLUSION|Abstract|ABSTRACT|Summary|SUMMARY)$'
NamePatternSource ==
    <<"^","(","I","n","t","r","o","d","u","c","t","i","o","n","|","I","N",
      "T","R","O","D","U","C","T","I","O","N","|","C","o","n","c","l","u",
      "s","i","o","n","|","C","O","N","C","L","U","S","I","O","N","|","A",
      "b","s","t","r","a","c","t","|","A","B","S","T","R","A","C","T","|",
      "S","u","m","m","a","r","y","|","S","U","M","M","A","R","Y",")","$">>

\* r'^([A-Z][A-Za-z\s]{5,})(?:\s*$)'
GenericPatternSource ==
    <<"^","(","[","A","-","Z","]","[","A","-","Z","a","-","z","\\","s","]",
      "{","5",",","}",")","(","?",":","\\","s","*","$",")">>

\* str.count(w): the occurrences of w in t that do not overlap, from the left
RECURSIVE CountSub(_, _)
CountSub(t, w) ==
    IF Len(t) < Len(w) THEN 0
    ELSE IF SubSeq(t, 1, Len(w)) = w
         THEN 1 + CountSub(SubSeq(t, Len(w) + 1, Len(t)), w)
         ELSE CountSub(Tail(t), w)

\* A pattern is a sequence of items.  An item matches min to max (max = -1:
\* any number of) characters that are (not = FALSE) or are not (not = TRUE)
\* in its set, or (end = TRUE) the end of the text.  Under re.IGNORECASE a
\* character is compared in lower case, and the sets hold lower-case letters.
Rep(set, min, max) == [in |-> set, not |-> FALSE, min |-> min, max |-> max, end |-> FALSE]

One(set) == Rep(set, 1, 1)

OneOrMore(set) == Rep(set, 1, -1)

ZeroOrMore(set) == Rep(set, 0, -1)

\* (.+)
SomeChars == [in |-> {"\n"}, not |-> TRUE, min |-> 1, max |-> -1, end |-> FALSE]

\* $
End == [in |-> {}, not |-> FALSE, min |-> 0, max |-> 0, end |-> TRUE]

\* a word, letter by letter
Word(w) == [i \in DOMAIN w |-> One({w[i]})]

\* [A-Z] and [A-Za-z\s] under re.IGNORECASE
Letter == LowerLetters

LetterOrSpace == LowerLetters \cup Whitespace

\* ([A-Z][A-Za-z\s]+)
TitleGroup == <<One(Letter), OneOrMore(LetterOrSpace)>>

\* \d+\.
Numbered == <<OneOrMore(Digits), One({"."})>>

\* the alternatives of each pattern of lines 19-37, in their order
heading_patterns ==
    << [source |-> ChapterPatternSource,
        items |-> {Word(<<"c","h","a","p","t","e","r">>)
                   \o <<OneOrMore(Whitespace), OneOrMore(Digits), ZeroOrMore({":", "-"} \cup Whitespace),
                        SomeChars>>}],
       [source |-> DepthOnePatternSource,
        items |-> {Numbered \o <<ZeroOrMore(Whitespace)>> \o TitleGroup}],
       [source |-> DepthTwoPatternSource,
        items |-> {Numbered \o <<OneOrMore(Digits), ZeroOrMore(Whitespace)>> \o TitleGroup}],
       [source |-> DepthThreePatternSource,
        items |-> {Numbered \o Numbered \o <<OneOrMore(Digits), ZeroOrMore(Whitespace)>>
                   \o TitleGroup}],
       [source |-> RomanPatternSource,
        items |-> {<<OneOrMore({"i", "v", "x"}), One({"."}), ZeroOrMore(Whitespace)>> \o TitleGroup}],
       [source |-> LetterPatternSource,
        items |-> {<<One(Letter), One({"."}), ZeroOrMore(Whitespace)>> \o TitleGroup}],
       [source |-> CapsPatternSource,
        items |-> {<<One(Letter), Rep(LetterOrSpace, 3, -1)>>}],
       [source |-> NamePatternSource,
        items |-> {Word(w) \o <<End>> :
                      w \in {<<"i","n","t","r","o","d","u","c","t","i","o","n">>,
                             <<"c","o","n","c","l","u","s","i","o","n">>,
                             <<"a","b","s","t","r","a","c","t">>,
                             <<"s","u","m","m","a","r","y">>}}],
       [source |-> GenericPatternSource,
        items |-> {<<One(Letter), Rep(LetterOrSpace, 5, -1), ZeroOrMore(Whitespace), End>>}] >>

\* the items from the k-th on match t from position i on
RECURSIVE MatchesAt(_, _, _, _)
MatchesAt(t, i, items, k) ==
    IF k > Len(items) THEN TRUE
    ELSE IF items[k].end
    THEN /\ i = Len(t) + 1 \/ (i = Len(t) /\ t[i] = "\n")
         /\ MatchesAt(t, i, items, k + 1)
    ELSE \E c \in items[k].min..(Len(t) - i + 1) :
            /\ items[k].max = -1 \/ c <= items[k].max
            /\ \A j \in i..(i + c - 1) :
                  (LowerChar(t[j]) \in items[k].in) # items[k].not
            /\ MatchesAt(t, i + c, items, k + 1)

\* re.match(pattern, text, re.IGNORECASE)
Match(pattern, t) == \E items \in pattern.items : MatchesAt(t, 1, items, 1)

\* lines 108-117: the first pattern that matches, 0 when none does
FirstMatch(t) ==
    IF \E n \in DOMAIN heading_patterns : Match(heading_patterns[n], t)
    THEN Min({n \in DOMAIN heading_patterns : Match(heading_patterns[n], t)})
    ELSE 0

\* r'\d+\.'
NumberingSource == <<"\\","d","+","\\",".">>

\* lines 111-116: the level a pattern forces
PatternLevel(pattern) ==
    LET count == CountSub(pattern, NumberingSource)
    IN  IF Contains(Lower(pattern), <<"c","h","a","p","t","e","r">>) \/ count = 1 THEN "H1"
        ELSE IF count = 2 THEN "H2"
        ELSE IF count = 3 THEN "H3"
        ELSE None

\* a font increment that counts a size at the limit as above it
FontScoreInclusive(font_size, avg_font_size) == IF 2 * font_size >= 3 * avg_font_size THEN 3 ELSE IF 5 * font_size >= 6 * avg_font_size THEN 2 ELSE IF font_size >= avg_font_size THEN 1 ELSE 0

\* lines 120-126: font_size > avg_font_size * 1.5, * 1.2, * 1
FontScore(font_size, avg_font_size) ==
    IF 2 * font_size > 3 * avg_font_size THEN 3
    ELSE IF 5 * font_size > 6 * avg_font_size THEN 2
    ELSE IF font_size > avg_font_size THEN 1
    ELSE 0

\* str.istitle(): an upper-case letter follows uncased characters only, a
\* lower-case letter cased ones only, and there is a cased character
IsCased(c) == IsUpperChar(c) \/ IsLowerChar(c)

IsTitle(t) ==
    /\ \E i \in DOMAIN t : IsCased(t[i])
    /\ \A i \in DOMAIN t :
          /\ IsUpperChar(t[i]) => (i = 1 \/ ~IsCased(t[i - 1]))
          /\ IsLowerChar(t[i]) => (i > 1 /\ IsCased(t[i - 1]))

\* lines 93, 97, 132: the limits on the length of a text
MinTextLen == 3

MaxHeadingTextLen == 200

UpperMinLen == 5

\* line 97
EndPunctuation == {".", "!", "?", ";", ","}

\* lines 108-138: heading_score, pattern_level and font_score of a stripped
\* text
Scores(t, font_size, is_bold, avg_font_size) ==
    LET n == FirstMatch(t)
    IN  [heading_score |->
             (IF n # 0 THEN 2 ELSE 0)
             + (IF is_bold THEN 1 ELSE 0)
             + (IF IsUpper(t) /\ Len(t) > UpperMinLen THEN 1 ELSE 0)
             + (IF IsTitle(t) THEN 1 ELSE 0),
         pattern_level |->
             IF n # 0 THEN PatternLevel(heading_patterns[n].source) ELSE None,
         font_score |-> FontScore(font_size, avg_font_size)]

\* lines 140-149
LevelOf(scores) ==
    LET total_score == scores.heading_score + scores.font_score
    IN  IF total_score >= 4 \/ scores.pattern_level = "H1" THEN "H1"
        ELSE IF total_score >= 3 \/ scores.pattern_level = "H2" THEN "H2"
        ELSE IF total_score >= 2 \/ scores.pattern_level = "H3" THEN "H3"
        ELSE None

\* classify_heading_level (lines 88-149)
ClassifyHeadingLevel(raw_text, font_size, is_bold, avg_font_size) ==
    LET t == Strip(raw_text)
    IN  IF Len(t) < MinTextLen \/ Len(t) > MaxHeadingTextLen THEN None
        ELSE IF t[Len(t)] \in EndPunctuation THEN None
        ELSE LevelOf(CHOOSE scores \in
                        {Scores(u, font_size, is_bold, avg_font_size) : u \in {t}} : TRUE)

-----------------------------------------------------------------------------
(* classify_heading_level on texts in fonts of several sizes.              *)

\* the largest font size, the page average being 10
MaxFontSize == 16

AverageFontSize == 10

HeadingTexts ==
    { <<"1","."," ","T","i","t","l","e">>,
      <<"1",".","2"," ","T","i","t","l","e">>,
      <<"1",".","2",".","3"," ","T","i","t","l","e">>,
      <<"1",".","2",".","3"," ","t","i","t","l","e">>,
      <<"2",".","1"," ","s","c","o","p","e"," ","o","f"," ","w","o","r","k">>,
      <<"C","h","a","p","t","e","r"," ","1"," ","I","n","t","r","o">>,
      <<"C","h","a","p","t","e","r"," ","1">>,
      <<"I","V","."," ","M","e","t","h","o","d","s">>,
      <<"A","."," ","S","c","o","p","e">>,
      <<"R","E","S","U","L","T","S">>,
      <<"A"," ","B"," ","C"," ","D">>,
      <<"I","n","t","r","o","d","u","c","t","i","o","n">>,
      <<"s","u","m","m","a","r","y">>,
      <<"R","e","l","a","t","e","d"," ","W","o","r","k">>,
      <<"r","e","l","a","t","e","d"," ","w","o","r","k">>,
      <<"s","e","e"," ","f","i","g"," ","2">>,
      <<" ","R","e","l","a","t","e","d"," ","W","o","r","k"," ">>,
      <<"G","r","e","a","t"," ","r","e","s","u","l","t","s","!">>,
      <<"1","."," ","T","i","t","l","e",".">>,
      <<"o","k">>,
      <<"1",".","2",".","3"," ","a">>,
      <<"1","2">>,
      LettersText(MaxHeadingTextLen), LettersText(MaxHeadingTextLen + 1) }

InitLexical ==
    /\ pc = "classify"
    /\ fragment \in [text : HeadingTexts,
                     font_size : (AverageFontSize - 1)..MaxFontSize,
                     is_bold : BOOLEAN,
                     avg_font_size : {AverageFontSize}]
    /\ heading_level = NoValue
    /\ ExtractIdle /\ ClusterIdle /\ OutlineIdle /\ CleanIdle
    /\ LanguageIdle /\ ScoreIdle /\ BatchIdle /\ MainIdle

\* PDFOutlineExtractor.classify_heading_level (lines 88-149)
ClassifyCall ==
    /\ pc = "classify"
    /\ heading_level' = ClassifyHeadingLevel(fragment.text, fragment.font_size,
                                             fragment.is_bold, fragment.avg_font_size)
    /\ pc' = "classified"
    /\ UNCHANGED <<fragment, extractVars, clusterVars, outlineVars, cleanVars,
                   languageVars, scoreVars, batchVars, mainVars>>

NextLexical == ClassifyCall

SpecLexical == InitLexical /\ [][NextLexical]_vars

-----------------------------------------------------------------------------
(* Claims about classify_heading_level.                                    *)

\* the text classified, and whether it passes the tests of lines 93 and 97
Classified == Strip(fragment.text)

Scored ==
    /\ Len(Classified) >= MinTextLen
    /\ Len(Classified) <= MaxHeadingTextLen
    /\ Classified[Len(Classified)] \notin EndPunctuation

\* the depth of the numbering pattern the text matches: 1 for '1. Title',
\* 2 for '1.2 Title', 3 for '1.2.3 Title', 0 when it matches none
NumberingDepth ==
    IF Match(heading_patterns[2], Classified) THEN 1
    ELSE IF Match(heading_patterns[3], Classified) THEN 2
    ELSE IF Match(heading_patterns[4], Classified) THEN 3
    ELSE 0

\* C27 as stated: a text that matches a depth-specific numbering pattern is
\* given the level of the depth whatever its score: H1 for '1. Title', H2 for
\* '1.2 Title', H3 for '1.2.3 Title'.
C27_NumberingForcesLevel ==
    (pc = "classified" /\ Scored /\ NumberingDepth # 0) =>
        heading_level = HEADING_LEVELS[NumberingDepth]

\* the increment for the font size and the level of a summed score
FontIncrement ==
    IF 10 * fragment.font_size > 15 * fragment.avg_font_size THEN 3
    ELSE IF 10 * fragment.font_size > 12 * fragment.avg_font_size THEN 2
    ELSE IF fragment.font_size > fragment.avg_font_size THEN 1
    ELSE 0

Banded(score) ==
    IF score >= 4 THEN "H1"
    ELSE IF score = 3 THEN "H2"
    ELSE IF score = 2 THEN "H3"
    ELSE None

PatternIncrement == IF FirstMatch(Classified) # 0 THEN 2 ELSE 0

BoldIncrement == IF fragment.is_bold THEN 1 ELSE 0

AllCaps == IsUpper(Classified) /\ Len(Classified) > 5

\* C28 as stated: for a text that matches no depth-specific numbering
\* pattern the level is H1 for a summed score of 4 or more, H2 for 3, H3 for
\* 2 and none otherwise, the score being the pattern increment plus the font
\* increment plus 1 for bold plus 1 for capitalization, and nothing else.
C28_LevelByScore ==
    (pc = "classified" /\ NumberingDepth = 0) =>
        heading_level =
            Banded(PatternIncrement + FontIncrement + BoldIncrement
                   + (IF AllCaps \/ IsTitle(Classified) THEN 1 ELSE 0))

\* C28, amended: for a text of 3 to 200 characters that does not end with one
\* of . ! ? ; , and whose first matching pattern is neither the chapter
\* pattern nor a numbering pattern, the level is H1 for a summed score of 4 or
\* more, H2 for 3, H3 for 2 and none otherwise, the score being 2 for a
\* pattern match plus the font increment plus 1 for bold plus 1 for an
\* all-caps text of more than 5 characters plus 1 for a title-case text; a
\* text outside these lengths or with such an end gets no level.
C28_LevelByScoreOfScoredText ==
    pc = "classified" =>
        /\ ~Scored => heading_level = None
        /\ (Scored /\ FirstMatch(Classified) \notin 1..4) =>
              heading_level =
                  Banded(PatternIncrement + FontIncrement + BoldIncrement
                         + (IF AllCaps THEN 1 ELSE 0)
                         + (IF IsTitle(Classified) THEN 1 ELSE 0))

\* 'related work' at 1.2 times the average size, not bold: 2 for the pattern
\* and 1 for the font, H2
C28_Witness ==
    /\ pc = "classified"
    /\ fragment.text = <<"r","e","l","a","t","e","d"," ","w","o","r","k">>
    /\ fragment.font_size * 10 = fragment.avg_font_size * 12
    /\ ~fragment.is_bold
    /\ heading_level = "H2"

====
